---- MODULE Spec2Model ----
(***************************************************************************)
(* Evidence pipelines of the brand guidelines extractor.  The local one:   *)
(* per-image extraction (design_data_analyzer/extraction), the evidence    *)
(* aggregator consolidate (design_data_analyzer/pipeline.py) and the       *)
(* document synthesizer (design_data_analyzer/guidelines.py).  The         *)
(* vision-model one: the loop of _run_openai (design_data_analyzer/cli.py) *)
(* and aggregate_guidelines (design_data_analyzer/openai_integration.py).  *)
(*                                                                         *)
(* Strings that the code transforms character by character (hex codes,    *)
(* OCR lines) are sequences of one-character strings; strings the code     *)
(* only copies or concatenates are TLA+ strings.  Fractions (prominence,   *)
(* whitespace_ratio) are integers in hundredths.                           *)
(***************************************************************************)
EXTENDS Integers, Sequences, FiniteSets, TLC

VARIABLES
    extractions,   \* the list of ImageExtraction handed to consolidate
    given,         \* the list as the caller built it (never assigned again)
    returned,      \* the AggregatedEvidence of each consolidate call so far
    env,           \* what the collaborators and the caller of a run supply
    outcome,       \* what extract_from_path ended in
    documents,     \* what each call of the document synthesizer ended in
    markdown,      \* the lines render_markdown joined, once it has run
    vision         \* the vision-model run: the paths analyzed and per_image

vars == <<extractions, given, returned, env, outcome, documents, markdown, vision>>

(***************************************************************************)
(* Bounds of the model.                                                    *)
(***************************************************************************)
MaxImages == 2     \* images in one consolidate input
MaxSwatches == 3   \* swatches over all images of a palette input
MaxSamples == 2    \* typography samples over all images of an input
MaxCalls == 2      \* successive consolidate calls over the same list

(***************************************************************************)
(* Generic helpers.                                                        *)
(***************************************************************************)
RECURSIVE SeqsUpTo(_, _)
SeqsUpTo(S, n) ==
    IF n = 0 THEN {<<>>}
    ELSE LET shorter == SeqsUpTo(S, n - 1)
         IN  shorter \cup {Append(s, x) : s \in shorter, x \in S}

Range(s) == {s[i] : i \in 1..Len(s)}

Min(S) == CHOOSE x \in S : \A y \in S : x <= y

\* the upper case of the lower-case letters, the lower case of the upper-case
UpperOf ==
    [a |-> "A", b |-> "B", c |-> "C", d |-> "D", e |-> "E", f |-> "F",
     g |-> "G", h |-> "H", i |-> "I", j |-> "J", k |-> "K", l |-> "L",
     m |-> "M", n |-> "N", o |-> "O", p |-> "P", q |-> "Q", r |-> "R",
     s |-> "S", t |-> "T", u |-> "U", v |-> "V", w |-> "W", x |-> "X",
     y |-> "Y", z |-> "Z"]
LowerOf ==
    [A |-> "a", B |-> "b", C |-> "c", D |-> "d", E |-> "e", F |-> "f",
     G |-> "g", H |-> "h", I |-> "i", J |-> "j", K |-> "k", L |-> "l",
     M |-> "m", N |-> "n", O |-> "o", P |-> "p", Q |-> "q", R |-> "r",
     S |-> "s", T |-> "t", U |-> "u", V |-> "v", W |-> "w", X |-> "x",
     Y |-> "y", Z |-> "z"]

IsLowerChar(c) == c \in DOMAIN UpperOf
IsUpperChar(c) == c \in DOMAIN LowerOf
IsAlphaChar(c) == IsLowerChar(c) \/ IsUpperChar(c)
IsSpaceChar(c) == c \in {" ", "\t", "\n"}

\* str.upper() and str.lower(), character by character
UpperChar(c) == IF IsLowerChar(c) THEN UpperOf[c] ELSE c
LowerChar(c) == IF IsUpperChar(c) THEN LowerOf[c] ELSE c

Upper(s) == [i \in 1..Len(s) |-> UpperChar(s[i])]
Lower(s) == [i \in 1..Len(s) |-> LowerChar(s[i])]

(***************************************************************************)
(* Data model (pipeline.py).                                               *)
(***************************************************************************)
usage_hint(prominence) ==
    IF prominence >= 45 THEN "Dominant background or hero coverage"
    ELSE IF prominence >= 25 THEN "Primary supporting block"
    ELSE IF prominence >= 10 THEN "Accent or typography highlight"
    ELSE "Detail accent"

ColorSwatch(hex, name, prominence) ==
    [hex |-> hex, name |-> name, prominence |-> prominence,
     usage_hint |-> usage_hint(prominence)]

TypographySample(text, casing, weight, classification) ==
    [text |-> text, casing |-> casing, weight |-> weight,
     classification |-> classification]

LayoutSummary(aspect_ratio, dominant_orientation, whitespace_ratio, focal_regions) ==
    [aspect_ratio |-> aspect_ratio,
     dominant_orientation |-> dominant_orientation,
     whitespace_ratio |-> whitespace_ratio,
     focal_regions |-> focal_regions]

\* Optional[LayoutSummary] = None
None == [none |-> TRUE]

ImageExtraction(source, colors, typography, layout, detected_copy, notes) ==
    [source |-> source, colors |-> colors, typography |-> typography,
     layout |-> layout, detected_copy |-> detected_copy, notes |-> notes]

\* Path.name: the final component of the path
Name(path) == path[Len(path)]

(***************************************************************************)
(* consolidate (pipeline.py).  A dict is the sequence of its items in      *)
(* insertion order; assigning to a key that is present keeps its place.    *)
(***************************************************************************)
DictHas(d, key) == \E i \in 1..Len(d) : d[i].key = key

DictGet(d, key) == d[CHOOSE i \in 1..Len(d) : d[i].key = key].value

DictSet(d, key, value) ==
    IF DictHas(d, key)
    THEN [i \in 1..Len(d) |->
            IF d[i].key = key THEN [key |-> key, value |-> value] ELSE d[i]]
    ELSE Append(d, [key |-> key, value |-> value])

DictValues(d) == [i \in 1..Len(d) |-> d[i].value]

\* mutant: the accumulators outlive the call (module-level lists)
LeftoverAccumulators ==
    [by_hex |-> <<>>, typography_samples |-> <<>>, layout_patterns |-> <<>>,
     tones |-> <<>>,
     copy_lines |->
         IF returned = <<>> THEN <<>>
         ELSE returned[Len(returned)].copy_observations,
     production |->
         IF returned = <<>> THEN <<>>
         ELSE returned[Len(returned)].production_notes]

NewAccumulators ==
    [by_hex |-> <<>>, typography_samples |-> <<>>, layout_patterns |-> <<>>,
     tones |-> <<>>, copy_lines |-> <<>>, production |-> <<>>]

\* mutant: the key is the hex as spelled, not uppercased
MergeColorExactHex(by_hex, color) ==
    LET key == color.hex
    IN  IF DictHas(by_hex, key)
           /\ DictGet(by_hex, key).prominence >= color.prominence
        THEN by_hex
        ELSE DictSet(by_hex, key, color)

\* mutant: on an exact tie the later swatch replaces the earlier one
MergeColorLaterTieWins(by_hex, color) ==
    LET key == Upper(color.hex)
    IN  IF DictHas(by_hex, key)
           /\ DictGet(by_hex, key).prominence > color.prominence
        THEN by_hex
        ELSE DictSet(by_hex, key, color)

\* mutant: the last swatch of a hex wins whatever its prominence
MergeColorLastWins(by_hex, color) == DictSet(by_hex, Upper(color.hex), color)

MergeColor(by_hex, color) ==
    LET key == Upper(color.hex)
    IN  IF DictHas(by_hex, key)
           /\ DictGet(by_hex, key).prominence >= color.prominence
        THEN by_hex
        ELSE DictSet(by_hex, key, color)

RECURSIVE MergeColors(_, _)
MergeColors(by_hex, colors) ==
    IF colors = <<>> THEN by_hex
    ELSE MergeColors(MergeColor(by_hex, Head(colors)), Tail(colors))

TypographyKey(typo) ==
    typo.classification \o ":" \o typo.weight \o ":" \o typo.casing

\* mutant: the last sample of a key wins
MergeTypographyLastWins(typography_samples, typo) ==
    DictSet(typography_samples, TypographyKey(typo), typo)

MergeTypography(typography_samples, typo) ==
    LET key == TypographyKey(typo)
    IN  IF ~DictHas(typography_samples, key)
        THEN DictSet(typography_samples, key, typo)
        ELSE typography_samples

RECURSIVE MergeTypographies(_, _)
MergeTypographies(typography_samples, typography) ==
    IF typography = <<>> THEN typography_samples
    ELSE MergeTypographies(MergeTypography(typography_samples, Head(typography)),
                           Tail(typography))

WhitespaceThreshold == 25

DenseNote(extraction) ==
    "Consider reviewing dense composition in " \o Name(extraction.source)
        \o "; whitespace under 25%."

\* mutant: an orientation already listed is not appended again
MergeLayoutPatternsDistinct(layout_patterns, extraction) ==
    IF extraction.layout # None
       /\ \A i \in 1..Len(layout_patterns) :
              layout_patterns[i] # extraction.layout.dominant_orientation
    THEN Append(layout_patterns, extraction.layout.dominant_orientation)
    ELSE layout_patterns

\* lines 87-93: the layout branch of the loop body, on layout_patterns
MergeLayoutPatterns(layout_patterns, extraction) ==
    IF extraction.layout # None
    THEN Append(layout_patterns, extraction.layout.dominant_orientation)
    ELSE layout_patterns

\* mutant: the threshold itself counts as dense
MergeProductionInclusive(production, extraction) ==
    LET warned ==
            IF extraction.layout # None
               /\ extraction.layout.whitespace_ratio <= WhitespaceThreshold
            THEN Append(production, DenseNote(extraction))
            ELSE production
    IN  warned \o extraction.notes

\* mutant: the notes of an image go in front of what was collected so far
MergeProductionNotesFirst(production, extraction) ==
    LET warned ==
            IF extraction.layout # None
               /\ extraction.layout.whitespace_ratio < WhitespaceThreshold
            THEN Append(production, DenseNote(extraction))
            ELSE production
    IN  extraction.notes \o warned

\* lines 87-95: what one image adds to production
MergeProduction(production, extraction) ==
    LET warned ==
            IF extraction.layout # None
               /\ extraction.layout.whitespace_ratio < WhitespaceThreshold
            THEN Append(production, DenseNote(extraction))
            ELSE production
    IN  warned \o extraction.notes

\* one iteration of the loop over images
MergeImage(acc, extraction) ==
    [by_hex |-> MergeColors(acc.by_hex, extraction.colors),
     typography_samples |->
         MergeTypographies(acc.typography_samples, extraction.typography),
     layout_patterns |-> MergeLayoutPatterns(acc.layout_patterns, extraction),
     tones |-> acc.tones,
     copy_lines |-> acc.copy_lines \o extraction.detected_copy,
     production |-> MergeProduction(acc.production, extraction)]

RECURSIVE MergeImages(_, _)
MergeImages(acc, images) ==
    IF images = <<>> THEN acc
    ELSE MergeImages(MergeImage(acc, Head(images)), Tail(images))

\* insert x behind every element whose prominence is not smaller: with the
\* elements taken in order this is a stable descending sort
RECURSIVE InsertByProminence(_, _)
InsertByProminence(sorted, x) ==
    IF sorted = <<>> THEN <<x>>
    ELSE IF Head(sorted).prominence >= x.prominence
         THEN <<Head(sorted)>> \o InsertByProminence(Tail(sorted), x)
         ELSE <<x>> \o sorted

RECURSIVE SortedByProminence(_)
SortedByProminence(values) ==
    IF values = <<>> THEN <<>>
    ELSE InsertByProminence(
             SortedByProminence(SubSeq(values, 1, Len(values) - 1)),
             values[Len(values)])

AggregatedEvidence(images, acc) ==
    [images |-> images,
     palette |-> SortedByProminence(DictValues(acc.by_hex)),
     typography |-> DictValues(acc.typography_samples),
     layout_patterns |-> acc.layout_patterns,
     tone_descriptors |-> acc.tones,
     copy_observations |-> acc.copy_lines,
     production_notes |-> acc.production]

\* mutant: an empty palette is replaced by a default swatch
consolidateFallbackSwatch(images) ==
    LET evidence == AggregatedEvidence(images, MergeImages(NewAccumulators, images))
    IN  IF evidence.palette = <<>>
        THEN [evidence EXCEPT
                !.palette = <<ColorSwatch(<<"#", "0", "0", "A", "1", "D", "E">>,
                                         "Bynder Blue", 60)>>]
        ELSE evidence

consolidate(images) ==
    AggregatedEvidence(images, MergeImages(NewAccumulators, images))

(***************************************************************************)
(* Inputs of consolidate: lists of ImageExtraction as a caller can build   *)
(* them.  Three families, each varying the fields one merge rule reads and *)
(* leaving the others at the dataclass defaults.                           *)
(***************************************************************************)
HexBlue == <<"#", "0", "0", "A", "1", "D", "E">>
HexBlueLower == <<"#", "0", "0", "a", "1", "d", "e">>
HexRed == <<"#", "C", "8", "3", "0", "3", "0">>

Swatches ==
    {ColorSwatch(c[1], c[2], p) :
        c \in {<<HexBlue, "Bynder Blue">>, <<HexBlueLower, "Bynder Blue">>,
               <<HexRed, "Warm Red">>},
        p \in {30, 50}}

Samples ==
    {TypographySample(text, t[1], t[2], t[3]) :
        text \in {"line one", "line two"},
        t \in {<<"uppercase", "bold", "display">>,
               <<"uppercase", "medium", "display">>,
               <<"uppercase", "medium", "headline">>,
               <<"title", "medium", "headline">>}}

NoColorsNote ==
    "No dominant colors detected; image may be transparent or monochrome."
NoSamplesNote ==
    "OCR text present but typography heuristics produced no samples."
NoCopyNote ==
    "No copy detected automatically; review manually for critical messaging."

Sources == {<<"assets", "hero.png">>, <<"drafts", "card.png">>}

Layouts ==
    {None,
     LayoutSummary(160, "landscape", 24, <<"center">>),
     LayoutSummary(160, "landscape", 25, <<"center">>),
     LayoutSummary(60, "portrait", 24, <<"top-left", "center">>)}

CopyAndNotes ==
    {<< <<>>, <<NoColorsNote, NoCopyNote>> >>,
     << <<"SALE", "Shop now">>, <<>> >>,
     << <<"SALE">>, <<NoColorsNote>> >>}

DefaultSource == <<"assets", "hero.png">>

PaletteImage(colors) ==
    ImageExtraction(DefaultSource, colors, <<>>, None, <<>>, <<>>)

TypographyImage(typography) ==
    ImageExtraction(DefaultSource, <<>>, typography, None, <<>>, <<>>)

LayoutImages ==
    {ImageExtraction(source, <<>>, <<>>, layout, cn[1], cn[2]) :
        source \in Sources, layout \in Layouts, cn \in CopyAndNotes}

FamilyImage(family, part) ==
    IF family = "palette" THEN PaletteImage(part) ELSE TypographyImage(part)

\* the ways to cut a sequence of n items into k consecutive, possibly empty,
\* parts: the ascending end positions of the first k - 1 parts
Cuts(n, k) ==
    {c \in [1..(k - 1) -> 0..n] : \A j \in 1..(k - 2) : c[j] <= c[j + 1]}

\* the images from the j-th on, image j taking flat from position from + 1
RECURSIVE CutImages(_, _, _, _, _, _)
CutImages(family, flat, cuts, k, j, from) ==
    IF j > k THEN <<>>
    ELSE LET to == IF j = k THEN Len(flat) ELSE cuts[j]
         IN  <<FamilyImage(family, SubSeq(flat, from + 1, to))>>
                 \o CutImages(family, flat, cuts, k, j + 1, to)

LayoutInputs == SeqsUpTo(LayoutImages, MaxImages)

NoEnv == [none |-> TRUE]
NoOutcome == [kind |-> "none"]
NoVision == [analyzed |-> <<>>, per_image |-> <<>>]

(***************************************************************************)
(* The aggregation run: a caller holds a list of extractions and calls     *)
(* consolidate on it, possibly again.                                      *)
(***************************************************************************)
\* a list of at most MaxImages images sharing out at most n items
SplitInput(family, items, n) ==
    \E flat \in SeqsUpTo(items, n) :
        \E k \in (IF flat = <<>> THEN 0 ELSE 1)..MaxImages :
            \E cuts \in Cuts(Len(flat), k) :
                extractions = CutImages(family, flat, cuts, k, 1, 0)

Init ==
    /\ \/ SplitInput("palette", Swatches, MaxSwatches)
       \/ SplitInput("typography", Samples, MaxSamples)
       \/ extractions \in LayoutInputs
    /\ given = extractions
    /\ returned = <<>>
    /\ env = NoEnv
    /\ outcome = NoOutcome
    /\ documents = <<>>
    /\ markdown = <<>>
    /\ vision = NoVision

\* one call consolidate(extractions): list(extractions) copies the list and
\* the loop only reads the images
Consolidate ==
    /\ Len(returned) < MaxCalls
    /\ returned' = Append(returned, consolidate(extractions))
    /\ extractions' = extractions
    /\ UNCHANGED <<given, env, outcome, documents, markdown, vision>>

Next == Consolidate

Spec == Init /\ [][Next]_vars

(***************************************************************************)
(* Text extraction and typography heuristics (extraction/text.py).         *)
(***************************************************************************)
RECURSIVE LStrip(_)
LStrip(s) == IF s # <<>> /\ IsSpaceChar(Head(s)) THEN LStrip(Tail(s)) ELSE s

RECURSIVE RStrip(_)
RStrip(s) ==
    IF s # <<>> /\ IsSpaceChar(s[Len(s)])
    THEN RStrip(SubSeq(s, 1, Len(s) - 1)) ELSE s

\* str.strip()
Strip(s) == RStrip(LStrip(s))

\* str.splitlines(), for the line break "\n"
RECURSIVE SplitLines(_)
SplitLines(text) ==
    IF text = <<>> THEN <<>>
    ELSE LET breaks == {i \in 1..Len(text) : text[i] = "\n"}
         IN  IF breaks = {} THEN <<text>>
             ELSE LET nl == CHOOSE i \in breaks : \A j \in breaks : i <= j
                  IN  <<SubSeq(text, 1, nl - 1)>>
                          \o SplitLines(SubSeq(text, nl + 1, Len(text)))

\* str.split(): the maximal runs of characters that are not whitespace
RECURSIVE Words(_)
Words(s) ==
    LET t == LStrip(s)
    IN  IF t = <<>> THEN <<>>
        ELSE LET spaces == {i \in 1..Len(t) : IsSpaceChar(t[i])}
                 n == IF spaces = {} THEN Len(t)
                      ELSE (CHOOSE i \in spaces : \A j \in spaces : i <= j) - 1
             IN  <<SubSeq(t, 1, n)>> \o Words(SubSeq(t, n + 1, Len(t)))

\* " ".join(words)
RECURSIVE JoinWords(_)
JoinWords(words) ==
    IF words = <<>> THEN <<>>
    ELSE IF Len(words) = 1 THEN words[1]
    ELSE words[1] \o <<" ">> \o JoinWords(Tail(words))

\* str.isupper(): a cased character, and no lowercase one
IsUpperStr(text) ==
    /\ \E i \in 1..Len(text) : IsUpperChar(text[i])
    /\ \A i \in 1..Len(text) : ~IsLowerChar(text[i])

\* mutant: every trimmed line is kept, however short
SelectLongEnoughKeepingShort(lines, min_length) ==
    SelectSeq(lines, LAMBDA line : Len(line) >= 0)

SelectLongEnough(lines, min_length) ==
    SelectSeq(lines, LAMBDA line : Len(line) >= min_length)

RECURSIVE StripAll(_)
StripAll(lines) ==
    IF lines = <<>> THEN <<>> ELSE <<Strip(Head(lines))>> \o StripAll(Tail(lines))

\* the list extract_text_lines returns when the recognition call returns
extract_text_lines(ocr, min_length) ==
    IF ocr.status = "missing" THEN <<>>
    ELSE SelectLongEnough(StripAll(SplitLines(ocr.text)), min_length)

infer_casing(text) ==
    LET letters == SelectSeq(text, IsAlphaChar)
    IN  IF letters = <<>> THEN "mixed"
        ELSE IF \A i \in 1..Len(letters) : IsUpperChar(letters[i]) THEN "uppercase"
        ELSE IF \A i \in 1..Len(letters) : IsLowerChar(letters[i]) THEN "lowercase"
        ELSE IF IsUpperChar(letters[1]) THEN "title"
        ELSE "mixed"

\* mutant: a line of exactly 12 characters is no longer bold
infer_weightBelowTwelve(text) ==
    IF Len(text) < 12 /\ IsUpperStr(text) THEN "bold"
    ELSE IF Len(Words(text)) >= 8 THEN "regular"
    ELSE "medium"

infer_weight(text) ==
    IF Len(text) <= 12 /\ IsUpperStr(text) THEN "bold"
    ELSE IF Len(Words(text)) >= 8 THEN "regular"
    ELSE "medium"

\* mutant: a line of exactly 4 words is no longer display
infer_classificationBelowFour(text) ==
    LET words == Words(text)
    IN  IF Len(words) < 4 /\ IsUpperStr(text) THEN "display"
        ELSE IF Len(words) <= 8 THEN "headline"
        ELSE "body"

infer_classification(text) ==
    LET words == Words(text)
    IN  IF Len(words) <= 4 /\ IsUpperStr(text) THEN "display"
        ELSE IF Len(words) <= 8 THEN "headline"
        ELSE "body"

\* mutant: seen holds the normalized lines as written, not lower-cased
RECURSIVE BuildSamplesCaseSensitive(_, _, _)
BuildSamplesCaseSensitive(lines, samples, seen) ==
    IF lines = <<>> THEN samples
    ELSE LET normalized == JoinWords(Words(Head(lines)))
         IN  IF normalized = <<>> \/ normalized \in seen
             THEN BuildSamplesCaseSensitive(Tail(lines), samples, seen)
             ELSE BuildSamplesCaseSensitive(
                      Tail(lines),
                      Append(samples,
                             TypographySample(normalized,
                                              infer_casing(normalized),
                                              infer_weight(normalized),
                                              infer_classification(normalized))),
                      seen \cup {normalized})

\* the loop of build_typography_samples over the lines still to read
RECURSIVE BuildSamples(_, _, _)
BuildSamples(lines, samples, seen) ==
    IF lines = <<>> THEN samples
    ELSE LET normalized == JoinWords(Words(Head(lines)))
         IN  IF normalized = <<>> \/ Lower(normalized) \in seen
             THEN BuildSamples(Tail(lines), samples, seen)
             ELSE BuildSamples(
                      Tail(lines),
                      Append(samples,
                             TypographySample(normalized,
                                              infer_casing(normalized),
                                              infer_weight(normalized),
                                              infer_classification(normalized))),
                      seen \cup {Lower(normalized)})

build_typography_samples(lines) == BuildSamples(lines, <<>>, {})

(***************************************************************************)
(* Color extraction (extraction/colors.py).  The quantizer of the imaging  *)
(* library answers with a palette (a list of RGB entries) and the palette  *)
(* index of every pixel.                                                   *)
(***************************************************************************)
NAMED_COLORS ==
    << <<"Bynder Blue", <<0, 161, 222>> >>, <<"Deep Blue", <<0, 102, 204>> >>,
       <<"Navy", <<17, 34, 68>> >>, <<"Sky", <<102, 204, 255>> >>,
       <<"Midnight", <<2, 20, 43>> >>, <<"Sunrise Orange", <<255, 149, 0>> >>,
       <<"Vivid Red", <<220, 20, 60>> >>, <<"Warm Red", <<200, 48, 48>> >>,
       <<"Slate", <<112, 128, 144>> >>, <<"Charcoal", <<54, 69, 79>> >>,
       <<"Stone", <<189, 195, 199>> >>, <<"Cloud", <<236, 240, 241>> >>,
       <<"Emerald", <<46, 204, 113>> >>, <<"Mint", <<171, 235, 198>> >>,
       <<"Lavender", <<187, 143, 206>> >>, <<"Magenta", <<214, 41, 118>> >>,
       <<"Gold", <<255, 195, 0>> >> >>

\* the square of the Euclidean distance: the root keeps the order
Distance2(candidate, rgb) ==
    (candidate[1] - rgb[1]) * (candidate[1] - rgb[1])
        + (candidate[2] - rgb[2]) * (candidate[2] - rgb[2])
        + (candidate[3] - rgb[3]) * (candidate[3] - rgb[3])

\* min(): the first entry of least distance
closest_named_color(rgb) ==
    LET D(i) == Distance2(NAMED_COLORS[i][2], rgb)
        best == CHOOSE i \in 1..Len(NAMED_COLORS) :
                    /\ \A j \in 1..Len(NAMED_COLORS) : D(i) <= D(j)
                    /\ \A j \in 1..(i - 1) : D(j) > D(i)
    IN  NAMED_COLORS[best][1]

HexDigits ==
    <<"0", "1", "2", "3", "4", "5", "6", "7",
      "8", "9", "A", "B", "C", "D", "E", "F">>

\* f"{n:02X}"
Hex2(n) == <<HexDigits[(n \div 16) + 1], HexDigits[(n % 16) + 1]>>

\* f"#{r:02X}{g:02X}{b:02X}"
hex_code(rgb) == <<"#">> \o Hex2(rgb[1]) \o Hex2(rgb[2]) \o Hex2(rgb[3])

\* Counter(pixels): the items (palette index, count) in order of first occurrence
RECURSIVE Counter(_, _)
Counter(counts, pixels) ==
    IF pixels = <<>> THEN counts
    ELSE Counter(DictSet(counts, Head(pixels),
                         IF DictHas(counts, Head(pixels))
                         THEN DictGet(counts, Head(pixels)) + 1 ELSE 1),
                 Tail(pixels))

\* mutant: of two items of equal count the later one comes first
RECURSIVE InsertByCountLaterFirst(_, _)
InsertByCountLaterFirst(sorted, x) ==
    IF sorted = <<>> THEN <<x>>
    ELSE IF Head(sorted).value > x.value
         THEN <<Head(sorted)>> \o InsertByCountLaterFirst(Tail(sorted), x)
         ELSE <<x>> \o sorted

RECURSIVE InsertByCount(_, _)
InsertByCount(sorted, x) ==
    IF sorted = <<>> THEN <<x>>
    ELSE IF Head(sorted).value >= x.value
         THEN <<Head(sorted)>> \o InsertByCount(Tail(sorted), x)
         ELSE <<x>> \o sorted

RECURSIVE SortedByCount(_)
SortedByCount(items) ==
    IF items = <<>> THEN <<>>
    ELSE InsertByCount(SortedByCount(SubSeq(items, 1, Len(items) - 1)),
                       items[Len(items)])

\* mutant: the first n items in order of first occurrence, not ranked
most_commonFirstSeen(counts, n) ==
    SubSeq(counts, 1, IF Len(counts) < n THEN Len(counts) ELSE n)

\* Counter.most_common(n): descending count, ties in order of first occurrence
most_common(counts, n) ==
    LET ranked == SortedByCount(counts)
    IN  SubSeq(ranked, 1, IF Len(ranked) < n THEN Len(ranked) ELSE n)

\* the loop over most_common: an index beyond the palette is skipped
RECURSIVE Swatches_of(_, _, _)
Swatches_of(ranked, palette_colors, total_pixels) ==
    IF ranked = <<>> THEN <<>>
    ELSE LET index == Head(ranked).key
             count == Head(ranked).value
             rest == Swatches_of(Tail(ranked), palette_colors, total_pixels)
         IN  IF index * 3 + 2 >= 3 * Len(palette_colors) THEN rest
             ELSE <<ColorSwatch(hex_code(palette_colors[index + 1]),
                                closest_named_color(palette_colors[index + 1]),
                                (count * 100) \div total_pixels)>> \o rest

DefaultMaxColors == 5

extract_colors(image, max_colors) ==
    LET palette_colors ==
            SubSeq(image.palette, 1,
                   IF Len(image.palette) < max_colors
                   THEN Len(image.palette) ELSE max_colors)
        counts == Counter(<<>>, image.pixels)
        total_pixels == IF Len(image.pixels) = 0 THEN 1 ELSE Len(image.pixels)
    IN  Swatches_of(most_common(counts, max_colors), palette_colors, total_pixels)

(***************************************************************************)
(* Layout analysis (extraction/layout.py).  The image gives its size, the  *)
(* share of its pixels at brightness 0.9 or more and the mean darkness of  *)
(* each of the nine grid cells, in hundredths.                             *)
(***************************************************************************)
GRID_REGIONS ==
    <<"top-left", "top-center", "top-right",
      "middle-left", "center", "middle-right",
      "bottom-left", "bottom-center", "bottom-right">>

\* mutant: a ratio on a threshold is no longer square
orientation_from_ratioInclusive(width, height) ==
    IF width * 100 >= 115 * height THEN "landscape"
    ELSE IF width * 100 <= 85 * height THEN "portrait"
    ELSE "square"

\* ratio = width / height against 1.15 and 0.85, on the exact quotient
orientation_from_ratio(width, height) ==
    IF width * 100 > 115 * height THEN "landscape"
    ELSE IF width * 100 < 85 * height THEN "portrait"
    ELSE "square"

\* mutant: every cell is a third wide and high, the remainder is dropped
CellDroppingRemainder(idx, width, height) ==
    LET third_h == height \div 3
        third_w == width \div 3
        row == idx \div 3
        col == idx % 3
    IN  [y0 |-> row * third_h, y1 |-> (row + 1) * third_h,
         x0 |-> col * third_w, x1 |-> (col + 1) * third_w]

\* the slice arr[y0:y1, x0:x1] of grid cell idx, counted from 0
Cell(idx, width, height) ==
    LET third_h == height \div 3
        third_w == width \div 3
        row == idx \div 3
        col == idx % 3
    IN  [y0 |-> row * third_h,
         y1 |-> IF row < 2 THEN (row + 1) * third_h ELSE height,
         x0 |-> col * third_w,
         x1 |-> IF col < 2 THEN (col + 1) * third_w ELSE width]

\* cell.size
CellSize(cell) == (cell.y1 - cell.y0) * (cell.x1 - cell.x0)

\* the pixels <<y, x>> of a slice
CellPixels(cell) == (cell.y0..(cell.y1 - 1)) \X (cell.x0..(cell.x1 - 1))

\* the loop over GRID_REGIONS: an empty cell is passed over
RECURSIVE FocalFrom(_, _)
FocalFrom(image, idx) ==
    IF idx > Len(GRID_REGIONS) THEN <<>>
    ELSE (IF CellSize(Cell(idx - 1, image.width, image.height)) = 0 THEN <<>>
          ELSE IF image.darkness[idx] > 35 THEN <<GRID_REGIONS[idx]>>
          ELSE <<>>)
         \o FocalFrom(image, idx + 1)

resolve_focal_regions(image) == FocalFrom(image, 1)

summarize_layout(image) ==
    LayoutSummary((image.width * 100) \div image.height,
                  orientation_from_ratio(image.width, image.height),
                  image.whitespace,
                  resolve_focal_regions(image))

(***************************************************************************)
(* extract_from_path (extraction/__init__.py).                             *)
(***************************************************************************)
\* mutant: the samples note does not look at the text lines
ExtractionNotesIgnoringCopy(colors, typography, text_lines) ==
    (IF colors = <<>> THEN <<NoColorsNote>> ELSE <<>>)
        \o (IF typography = <<>> THEN <<NoSamplesNote>> ELSE <<>>)
        \o (IF text_lines = <<>> THEN <<NoCopyNote>> ELSE <<>>)

ExtractionNotes(colors, typography, text_lines) ==
    (IF colors = <<>> THEN <<NoColorsNote>> ELSE <<>>)
        \o (IF typography = <<>> /\ text_lines # <<>>
            THEN <<NoSamplesNote>> ELSE <<>>)
        \o (IF text_lines = <<>> THEN <<NoCopyNote>> ELSE <<>>)

MinLength == 3

\* mutant: a decode failure is swallowed and an empty extraction returned
extract_from_pathSwallowingDecodeError(e) ==
    IF ~e.decodable
    THEN [kind |-> "extraction",
          value |-> ImageExtraction(e.path, <<>>, <<>>, None, <<>>,
                                    <<NoColorsNote, NoCopyNote>>)]
    ELSE IF e.ocr.status = "raises"
    THEN [kind |-> "error", raised_by |-> "image_to_string", path |-> e.path]
    ELSE LET colors == extract_colors(e.image, DefaultMaxColors)
             layout == summarize_layout(e.image)
             text_lines == extract_text_lines(e.ocr, MinLength)
             typography == build_typography_samples(text_lines)
         IN  [kind |-> "extraction",
              value |-> ImageExtraction(
                            e.path, colors, typography, layout, text_lines,
                            ExtractionNotes(colors, typography, text_lines))]

\* what the call ends in: an ImageExtraction, or the exception that leaves it
extract_from_path(e) ==
    IF ~e.decodable
    THEN [kind |-> "error", raised_by |-> "Image.open", path |-> e.path]
    ELSE IF e.ocr.status = "raises"
    THEN [kind |-> "error", raised_by |-> "image_to_string", path |-> e.path]
    ELSE LET colors == extract_colors(e.image, DefaultMaxColors)
             layout == summarize_layout(e.image)
             text_lines == extract_text_lines(e.ocr, MinLength)
             typography == build_typography_samples(text_lines)
         IN  [kind |-> "extraction",
              value |-> ImageExtraction(
                            e.path, colors, typography, layout, text_lines,
                            ExtractionNotes(colors, typography, text_lines))]

(***************************************************************************)
(* The extraction run: one call of extract_from_path on a path, with the   *)
(* answers of the imaging library and of the text recognition drawn from   *)
(* small sets.                                                             *)
(***************************************************************************)
MaxPixels == 2     \* pixels of the quantized image
MaxText == 4       \* characters of the recognized text

Palettes == {<<>>, << <<0, 161, 222>> >>, << <<0, 161, 222>>, <<200, 48, 48>> >>}

Shapes ==
    {[width |-> 120, height |-> 120, whitespace |-> 0,
      darkness |-> <<37, 37, 37, 50, 50, 50, 63, 63, 63>>],
     [width |-> 160, height |-> 100, whitespace |-> 80,
      darkness |-> <<0, 0, 0, 0, 90, 0, 0, 0, 0>>]}

TextChars == {"A", "b", " ", "\n"}

MaxLines == 2      \* lines of a recognized text made of whole lines

\* lines as the recognition returns them, before trimming
RawLines ==
    {<<"S", "A", "L", "E">>,
     <<"S", "a", "l", "e">>,
     <<" ", "S", "A", "L", "E", " ">>,
     <<"N", "e", "w", " ", " ", "i", "n">>,
     <<"N", "e", "w", " ", "i", "n">>,
     <<"o", "k">>}

\* the text of the lines, one line break between two lines
RECURSIVE JoinLines(_)
JoinLines(lines) ==
    IF lines = <<>> THEN <<>>
    ELSE IF Len(lines) = 1 THEN lines[1]
    ELSE lines[1] \o <<"\n">> \o JoinLines(Tail(lines))

\* what image_to_string can return: any short text, or whole lines
RecognizedTexts ==
    SeqsUpTo(TextChars, MaxText)
        \cup {JoinLines(lines) : lines \in SeqsUpTo(RawLines, MaxLines)}

NoImage == [none |-> TRUE]
NoOcr == [status |-> "missing"]

InitExtract ==
    /\ extractions = <<>>
    /\ given = <<>>
    /\ returned = <<>>
    /\ outcome = NoOutcome
    /\ documents = <<>>
    /\ markdown = <<>>
    /\ vision = NoVision
    /\ \E path \in Sources :
          \/ env = [path |-> path, decodable |-> FALSE, image |-> NoImage,
                    ocr |-> NoOcr]
          \/ \E shape \in Shapes, palette \in Palettes,
                pixels \in SeqsUpTo(0..1, MaxPixels) \ {<<>>} :
                \E ocr \in {NoOcr, [status |-> "raises"]}
                           \cup {[status |-> "ok", text |-> t] :
                                    t \in RecognizedTexts} :
                    env = [path |-> path, decodable |-> TRUE,
                           image |-> [width |-> shape.width,
                                      height |-> shape.height,
                                      whitespace |-> shape.whitespace,
                                      darkness |-> shape.darkness,
                                      palette |-> palette, pixels |-> pixels],
                           ocr |-> ocr]

ExtractFromPath ==
    /\ outcome = NoOutcome
    /\ outcome' = extract_from_path(env)
    /\ UNCHANGED <<extractions, given, returned, env, documents, markdown, vision>>

NextExtract == ExtractFromPath

SpecExtract == InitExtract /\ [][NextExtract]_vars

(***************************************************************************)
(* The typography run: one call of build_typography_samples on a list of   *)
(* lines a caller can pass, blank lines included.                          *)
(***************************************************************************)
MaxInputLines == 3 \* lines handed to build_typography_samples

SampleLines == RawLines \cup {<<>>, <<" ", " ">>}

MaxWords == 9      \* words of a line handed over on its own

LineWords ==
    {<<"A">>, <<"b">>, <<"7">>,
     <<"A", "B", "C", "D", "E">>, <<"A", "B", "C", "D", "E", "F">>}

\* n words separated by single spaces: n - 1 times word, then last
RECURSIVE WordedLine(_, _, _)
WordedLine(word, last, n) ==
    IF n = 1 THEN last ELSE word \o <<" ">> \o WordedLine(word, last, n - 1)

WordedLines ==
    {WordedLine(word, last, n) : word \in LineWords, last \in LineWords,
                                 n \in 1..MaxWords}

InitSamples ==
    /\ extractions = <<>>
    /\ given = <<>>
    /\ returned = <<>>
    /\ outcome = NoOutcome
    /\ documents = <<>>
    /\ markdown = <<>>
    /\ vision = NoVision
    /\ \E lines \in SeqsUpTo(SampleLines, MaxInputLines)
                      \cup {<<line>> : line \in WordedLines} :
           env = [lines |-> lines]

BuildTypographySamples ==
    /\ outcome = NoOutcome
    /\ outcome' = [kind |-> "samples",
                   value |-> build_typography_samples(env.lines)]
    /\ UNCHANGED <<extractions, given, returned, env, documents, markdown, vision>>

NextSamples == BuildTypographySamples

SpecSamples == InitSamples /\ [][NextSamples]_vars

(***************************************************************************)
(* The layout run: one call of summarize_layout on the blurred grayscale   *)
(* array of an image.  A pixel is black (0.0) or white (1.0); small arrays *)
(* are drawn pixel by pixel, larger ones are all white or all black.       *)
(***************************************************************************)
MaxSide == 30      \* width and height of an image
MaxDetail == 4     \* width and height of an image drawn pixel by pixel
MaxDark == 2       \* black pixels of an image drawn pixel by pixel

PixelsOf(width, height) == (0..(height - 1)) \X (0..(width - 1))

DarkSets(width, height) ==
    {{}, PixelsOf(width, height)}
        \cup (IF width <= MaxDetail /\ height <= MaxDetail
              THEN {Range(s) : s \in SeqsUpTo(PixelsOf(width, height), MaxDark)}
              ELSE {})

\* what numpy reads off the array: its shape, mean(arr >= 0.9) and, for each
\* cell that has pixels, 1.0 - mean(cell)
GrayscaleArray(width, height, dark) ==
    [width |-> width,
     height |-> height,
     whitespace |->
         ((width * height - Cardinality(dark)) * 100) \div (width * height),
     darkness |->
         [idx \in 1..Len(GRID_REGIONS) |->
             LET cell == Cell(idx - 1, width, height)
             IN  IF CellSize(cell) = 0 THEN 0
                 ELSE (Cardinality(dark \cap CellPixels(cell)) * 100)
                          \div CellSize(cell)]]

InitLayout ==
    /\ extractions = <<>>
    /\ given = <<>>
    /\ returned = <<>>
    /\ outcome = NoOutcome
    /\ documents = <<>>
    /\ markdown = <<>>
    /\ vision = NoVision
    /\ \E width \in 1..MaxSide, height \in 1..MaxSide :
           \E dark \in DarkSets(width, height) :
               env = [width |-> width, height |-> height, dark |-> dark]

SummarizeLayout ==
    /\ outcome = NoOutcome
    /\ outcome' = [kind |-> "layout",
                   value |-> summarize_layout(
                                 GrayscaleArray(env.width, env.height, env.dark))]
    /\ UNCHANGED <<extractions, given, returned, env, documents, markdown, vision>>

NextLayout == SummarizeLayout

SpecLayout == InitLayout /\ [][NextLayout]_vars

(***************************************************************************)
(* Document synthesis (guidelines.py).  A body line is a TLA+ string; a    *)
(* design spec is a record with the keys aggregate_guidelines writes.      *)
(***************************************************************************)
\* U+2014, which a TLA+ string cannot hold
EmDash == "--"

\* "".join(chars): the string of a sequence of characters
RECURSIVE Str(_)
Str(chars) == IF chars = <<>> THEN "" ELSE Head(chars) \o Str(Tail(chars))

\* sep.join(items)
RECURSIVE JoinStr(_, _)
JoinStr(items, sep) ==
    IF items = <<>> THEN ""
    ELSE IF Len(items) = 1 THEN items[1]
    ELSE items[1] \o sep \o JoinStr(Tail(items), sep)

Section(title, body) == [title |-> title, body |-> body]

GuidelineDocument(title, sections) == [title |-> title, sections |-> sections]

\* str.lstrip("#")
RECURSIVE LStripHash(_)
LStripHash(s) == IF s # <<>> /\ Head(s) = "#" THEN LStripHash(Tail(s)) ELSE s

\* s[from:to]
Slice(s, from, to) ==
    IF from >= Len(s) THEN <<>>
    ELSE SubSeq(s, from + 1, IF to < Len(s) THEN to ELSE Len(s))

IsHexDigit(c) == UpperChar(c) \in Range(HexDigits)

HexDigitValue(c) == (CHOOSE i \in 1..Len(HexDigits) : HexDigits[i] = UpperChar(c)) - 1

\* int(s, 16) of a slice made of hex digits, "#" and letters: a ValueError
\* unless the slice is one or two hex digits
ParseHex(s) ==
    IF s = <<>> \/ \E i \in 1..Len(s) : ~IsHexDigit(s[i])
    THEN [kind |-> "error", raised_by |-> "_relative_brightness"]
    ELSE [kind |-> "ok",
          value |-> IF Len(s) = 1 THEN HexDigitValue(s[1])
                    ELSE 16 * HexDigitValue(s[1]) + HexDigitValue(s[2])]

\* 0.2126 * r + 0.7152 * g + 0.0722 * b as a real number, times 10000
WeightedSum(r, g, b) == 2126 * r + 7152 * g + 722 * b

\* the colors for which the double (0.2126 * r + 0.7152 * g + 0.0722 * b) / 255.0
\* is 0.3499999999999999 or 0.5999999999999999 while the real number is 0.35
\* or 0.6; for every other color the double and the real number lie on the
\* same side of 0.35 and of 0.6
RoundedBelow ==
    {<<1, 104, 203>>, <<66, 87, 180>>, <<80, 100, 10>>, <<97, 90, 59>>,
     <<213, 43, 183>>, <<227, 56, 13>>,
     <<37, 200, 29>>, <<40, 177, 248>>, <<54, 190, 78>>, <<170, 143, 202>>,
     <<184, 156, 32>>, <<187, 133, 251>>, <<201, 146, 81>>, <<218, 136, 130>>}

\* the brightness times 255 * 10000, one less where the double is rounded
\* below the real number on a threshold; or the ValueError of int()
relative_brightness(hex_value) ==
    LET hex_clean == LStripHash(hex_value)
        r == ParseHex(Slice(hex_clean, 0, 2))
        g == ParseHex(Slice(hex_clean, 2, 4))
        b == ParseHex(Slice(hex_clean, 4, 6))
    IN  IF r.kind = "error" THEN r
        ELSE IF g.kind = "error" THEN g
        ELSE IF b.kind = "error" THEN b
        ELSE [kind |-> "ok",
              value |-> WeightedSum(r.value, g.value, b.value)
                            - (IF <<r.value, g.value, b.value>> \in RoundedBelow
                               THEN 1 ELSE 0)]

\* the letters and the uppercase letters of the lines
RECURSIVE CountLetters(_)
CountLetters(lines) ==
    IF lines = <<>> THEN [letters |-> 0, uppercase |-> 0]
    ELSE LET rest == CountLetters(Tail(lines))
             line == Head(lines)
         IN  [letters |-> rest.letters
                  + Cardinality({i \in 1..Len(line) : IsAlphaChar(line[i])}),
              uppercase |-> rest.uppercase
                  + Cardinality({i \in 1..Len(line) : IsUpperChar(line[i])})]

\* uppercase / letters as the two counts, 0.0 being no letters at all; the
\* callers compare the exact fraction with their thresholds
uppercase_ratio(lines) == CountLetters(lines)

RECURSIVE WordCount(_)
WordCount(lines) ==
    IF lines = <<>> THEN 0 ELSE Len(Words(Head(lines))) + WordCount(Tail(lines))

\* enumerate(pillars, start=idx)
RECURSIVE Pillars(_, _)
Pillars(pillars, idx) ==
    IF pillars = <<>> THEN <<>>
    ELSE <<ToString(idx) \o ". **" \o Head(pillars) \o "**">>
             \o Pillars(Tail(pillars), idx + 1)

\* mutant: a ratio of exactly 0.55 counts as high uppercase usage
CasingGuidanceInclusive(ratio, copy_lines) ==
    IF ratio.letters # 0 /\ ratio.uppercase * 100 >= 55 * ratio.letters
    THEN "- High uppercase usage; maintain bold, declarative headlines."
    ELSE IF /\ ratio.letters = 0 \/ ratio.uppercase * 100 < 25 * ratio.letters
            /\ copy_lines # <<>>
    THEN "- Predominantly sentence case; emphasize conversational clarity."
    ELSE "- Mixed casing observed; adapt tone per channel while staying precise."

\* the `if uppercase_ratio > 0.55 ... elif ... else` of the voice lines
CasingGuidance(ratio, copy_lines) ==
    IF ratio.letters # 0 /\ ratio.uppercase * 100 > 55 * ratio.letters
    THEN "- High uppercase usage; maintain bold, declarative headlines."
    ELSE IF /\ ratio.letters = 0 \/ ratio.uppercase * 100 < 25 * ratio.letters
            /\ copy_lines # <<>>
    THEN "- Predominantly sentence case; emphasize conversational clarity."
    ELSE "- Mixed casing observed; adapt tone per channel while staying precise."

\* the Section, or the ValueError _relative_brightness raises
tone_of_voice_section(palette, typography, copy_lines, voice_spec, brand_spec) ==
    LET has_dominant == palette # <<>>
        ratio == uppercase_ratio(copy_lines)
        brightness == IF has_dominant THEN relative_brightness(palette[1].hex)
                      ELSE [kind |-> "ok", value |-> 0]
        tone == IF brightness.value < 892500 THEN "confident and premium"
                ELSE IF brightness.value < 1530000 THEN "assured and balanced"
                ELSE "open and energizing"
        palette_line ==
            IF has_dominant
            THEN "- Dominant palette leans " \o tone
                     \o "; mirror this energy in written narratives."
            ELSE "- Palette analysis unavailable; retain neutral authoritative tone."
        attributes ==
            IF brand_spec # None /\ brand_spec.core_attributes # <<>>
            THEN <<"- Core attributes surfaced: "
                       \o JoinStr(brand_spec.core_attributes, ", ") \o ".">>
            ELSE <<>>
        casing_line == CasingGuidance(ratio, copy_lines)
        descriptors ==
            IF voice_spec # None /\ voice_spec.tone_descriptors # <<>>
            THEN <<"- Noted tone descriptors: "
                       \o JoinStr(voice_spec.tone_descriptors, ", ") \o ".">>
            ELSE <<>>
        principles ==
            IF voice_spec # None /\ voice_spec.messaging_pillars # <<>>
            THEN Pillars(voice_spec.messaging_pillars, 1)
            ELSE <<IF WordCount(copy_lines) <= 4 * Len(copy_lines)
                   THEN "1. **Punchy Headlines** " \o EmDash
                            \o " Lead with sharp benefit statements."
                   ELSE "1. **Clarity First** " \o EmDash
                            \o " Summaries should surface the outcome immediately.",
                   "2. **Evidence-backed Claims** " \o EmDash
                       \o " Support impact points with data where available.",
                   "3. **Partner Mindset** " \o EmDash
                       \o " Use second-person framing to reinforce collaboration.">>
        dos_and_donts ==
            IF voice_spec # None /\ (voice_spec.dos # <<>> \/ voice_spec.donts # <<>>)
            THEN <<"">>
                 \o (IF voice_spec.dos # <<>>
                     THEN <<"- **Do:** " \o JoinStr(voice_spec.dos, ", ")>>
                     ELSE <<>>)
                 \o (IF voice_spec.donts # <<>>
                     THEN <<"- **Don't:** " \o JoinStr(voice_spec.donts, ", ")>>
                     ELSE <<>>)
            ELSE <<>>
    IN  IF brightness.kind = "error" THEN brightness
        ELSE Section("Tone of Voice",
                     <<"### What Defines the Voice", palette_line>>
                         \o attributes \o <<casing_line>> \o descriptors
                         \o <<"", "### Key Voice Principles">>
                         \o principles \o dos_and_donts)

social_media_section(layout_labels, design_context, key_components, callouts) ==
    LET counts == Counter(<<>>, layout_labels)
        orientation == IF counts # <<>> THEN most_common(counts, 1)[1].key
                       ELSE "landscape"
        channels ==
            IF orientation = "portrait"
            THEN <<"- Prioritize Instagram Stories/Reels and mobile-first LinkedIn posts.",
                   "- Repurpose vertical cuts for event live coverage on X.">>
            ELSE IF orientation = "square"
            THEN <<"- Square treatments adapt well to Instagram feed and LinkedIn carousels.",
                   "- Ensure captions highlight value quickly for mobile consumption.">>
            ELSE <<"- Landscape layouts suit webinars, YouTube explainers, and LinkedIn banners.",
                   "- Maintain responsive crops for Instagram and short-form platforms.">>
    IN  Section("Social Media",
                <<"### Channel Focus">> \o channels
                    \o (IF design_context # <<>>
                        THEN <<"- Observed design contexts: "
                                   \o JoinStr(design_context, ", ")
                                   \o "; tailor copy for these audiences.">>
                        ELSE <<>>)
                    \o <<"", "### Publishing Checklist",
                         "- Tag Bynder master accounts to amplify reach.",
                         "- Validate stats and claims before post scheduling.",
                         "- Secure approvals for any customer visuals or quotes.">>
                    \o (IF key_components # <<>>
                        THEN <<"- Spotlight key modules: "
                                   \o JoinStr(key_components, ", ") \o ".">>
                        ELSE <<>>)
                    \o (IF callouts # <<>>
                        THEN <<"- Reinforce CTAs using: "
                                   \o JoinStr(callouts, ", ") \o ".">>
                        ELSE <<>>))

\* the focal regions of the images that have a layout, in image order
RECURSIVE FocalRegionsOf(_)
FocalRegionsOf(images) ==
    IF images = <<>> THEN <<>>
    ELSE (IF Head(images).layout # None THEN Head(images).layout.focal_regions
          ELSE <<>>) \o FocalRegionsOf(Tail(images))

RECURSIVE Keys(_)
Keys(items) == IF items = <<>> THEN <<>> ELSE <<Head(items).key>> \o Keys(Tail(items))

\* str.lower() of the color names the model holds
LowerOfName ==
    ("Bynder Blue" :> "bynder blue") @@ ("Deep Blue" :> "deep blue")
    @@ ("Navy" :> "navy") @@ ("Sky" :> "sky") @@ ("Midnight" :> "midnight")
    @@ ("Sunrise Orange" :> "sunrise orange") @@ ("Vivid Red" :> "vivid red")
    @@ ("Warm Red" :> "warm red") @@ ("Slate" :> "slate")
    @@ ("Charcoal" :> "charcoal") @@ ("Stone" :> "stone") @@ ("Cloud" :> "cloud")
    @@ ("Emerald" :> "emerald") @@ ("Mint" :> "mint")
    @@ ("Lavender" :> "lavender") @@ ("Magenta" :> "magenta")
    @@ ("Gold" :> "gold") @@ ("Ocean" :> "ocean") @@ ("Signal" :> "signal")

\* name.lower() of a swatch: of its color name, or of the hex standing in for it
NameLower(swatch) ==
    IF swatch.name \in DOMAIN LowerOfName THEN LowerOfName[swatch.name]
    ELSE Str(Lower(swatch.hex))

\* field.replace("_", " ") and the items, in the order of the dict
ImageryNotes(imagery_style) ==
    (IF imagery_style.photography # <<>>
     THEN <<"photography: " \o JoinStr(imagery_style.photography, ", ")>> ELSE <<>>)
    \o (IF imagery_style.illustration # <<>>
        THEN <<"illustration: " \o JoinStr(imagery_style.illustration, ", ")>>
        ELSE <<>>)
    \o (IF imagery_style.iconography # <<>>
        THEN <<"iconography: " \o JoinStr(imagery_style.iconography, ", ")>>
        ELSE <<>>)
    \o (IF imagery_style.textures_and_patterns # <<>>
        THEN <<"textures and patterns: "
                   \o JoinStr(imagery_style.textures_and_patterns, ", ")>>
        ELSE <<>>)

visual_system_section(palette, evidence, visual_spec, layout_spec) ==
    LET colors == palette
        layout_regions ==
            IF evidence # None
            THEN Counter(<<>>, FocalRegionsOf(evidence.images)) ELSE <<>>
        imagery_notes ==
            IF visual_spec # None THEN ImageryNotes(visual_spec.imagery_style)
            ELSE <<>>
    IN  Section("Visual System",
                <<"### Datastream Principles",
                  IF layout_regions # <<>>
                  THEN "- Visual weight concentrates around "
                           \o JoinStr(Keys(most_common(layout_regions, 3)), ", ")
                           \o "; maintain consistent rhythm across assets."
                  ELSE "- Layout scans evenly; introduce focal anchors aligned to brand icon nodes.">>
                    \o (IF colors # <<>>
                        THEN <<"- Anchor hero compositions with " \o colors[1].name
                                   \o " (" \o Str(colors[1].hex)
                                   \o "); deploy secondary hues for supporting datablocks.">>
                        ELSE <<>>)
                    \o (IF Len(colors) >= 3
                        THEN <<"- Use " \o NameLower(colors[3])
                                   \o " as a thrive accent within charts, chips, or callouts.">>
                        ELSE <<>>)
                    \o (IF layout_spec # None /\ layout_spec.grid_and_spacing # <<>>
                        THEN <<"- Grid cues detected: "
                                   \o JoinStr(layout_spec.grid_and_spacing, ", ") \o ".">>
                        ELSE <<>>)
                    \o <<"", "### Motion & Composition",
                         "- Stack datablocks into coherent streams; avoid fragmented visual noise.",
                         "- Apply progressive offsets (25%-75%) to reinforce depth and motion cues.">>
                    \o (IF imagery_notes # <<>>
                        THEN <<"- Imagery cues: " \o JoinStr(imagery_notes, "; ") \o ".">>
                        ELSE <<>>))

\* the whitespace_ratio of the images that have a layout
RECURSIVE WhitespaceLevels(_)
WhitespaceLevels(images) ==
    IF images = <<>> THEN <<>>
    ELSE (IF Head(images).layout # None
          THEN <<Head(images).layout.whitespace_ratio>> ELSE <<>>)
         \o WhitespaceLevels(Tail(images))

RECURSIVE Sum(_)
Sum(values) == IF values = <<>> THEN 0 ELSE Head(values) + Sum(Tail(values))

corner_radius_section(evidence, layout_spec) ==
    LET whitespace_levels ==
            IF evidence # None THEN WhitespaceLevels(evidence.images) ELSE <<>>
        \* mean(whitespace_levels) >= t, 0.35 standing in without levels
        AtLeast(t) ==
            IF whitespace_levels # <<>>
            THEN Sum(whitespace_levels) >= t * Len(whitespace_levels)
            ELSE 35 >= t
    IN  Section("Corner Radius",
                <<"### Radius Guidance",
                  IF AtLeast(50)
                  THEN "- Embrace softer 16px-20px radii for hero containers; whitespace supports openness."
                  ELSE IF AtLeast(30)
                  THEN "- Standard 12px-16px radii keep content structured while preserving flow."
                  ELSE "- Use tighter 8px radii on dense modules to maintain precision.",
                  "- Datastream datablocks: default to 20% of block height for rounded corners.",
                  "- Physical deliverables: scale corner radius to 1.5% of the shortest edge as baseline.">>
                    \o (IF layout_spec # None /\ layout_spec.interaction_notes # <<>>
                        THEN <<"- Interaction cues: "
                                   \o JoinStr(layout_spec.interaction_notes, ", ") \o ".">>
                        ELSE <<>>))

iconography_section(palette, imagery_spec) ==
    LET colors == palette
        base_color == IF colors # <<>> THEN Str(colors[1].hex) ELSE "#00A1DE"
    IN  Section("Iconography",
                <<"### Icon Library",
                  "- Leverage Material Symbols Rounded set at optical size 40 for accessibility.",
                  "- Primary tint: " \o base_color \o " with white fill for contrast.">>
                    \o (IF Len(colors) > 1
                        THEN <<"- Secondary tint: " \o Str(colors[2].hex)
                                   \o " for hover states or SMB contexts.">>
                        ELSE <<>>)
                    \o <<"", "### Usage",
                         "- Nest icons within datablocks; reserve standalone usage for favicons or app shortcuts.",
                         "- Maintain icon containers at 150%-200% of icon bounding box for breathing room.">>
                    \o (IF imagery_spec # <<>>
                        THEN <<"- Icon motifs emphasised: "
                                   \o JoinStr(imagery_spec, ", ") \o ".">>
                        ELSE <<>>))

logo_section(palette, logo_usage) ==
    LET colors == palette
        primary_hex == IF colors # <<>> THEN Str(colors[1].hex) ELSE "#00A1DE"
    IN  Section("Logo",
                <<"### Logo Lockups",
                  "- Primary lockup: symbol + wordmark in " \o primary_hex
                      \o " on white or deep navy.",
                  "- Maintain 1x clearspace buffer around the combined lockup.",
                  "- Minimum size: 24px height digital, 12mm print.",
                  "", "### Symbol Guidance",
                  "- Reserve mono symbol for avatars and favicons where scale is restricted.",
                  "- When color is limited, default to black/white paired set.">>
                    \o (IF logo_usage # <<>>
                        THEN <<"- Additional notes: " \o JoinStr(logo_usage, ", ") \o ".">>
                        ELSE <<>>))

\* ", ".join(items) or the em dash
JoinOrDash(items) == IF items = <<>> THEN EmDash ELSE JoinStr(items, ", ")

SpecRow(color) ==
    "| " \o Str(color.hex) \o " | " \o JoinOrDash(color.names) \o " | "
        \o JoinOrDash(color.usage_notes) \o " | " \o JoinOrDash(color.finishes)
        \o " | " \o JoinOrDash(color.additional_notes) \o " |"

SwatchRow(swatch) ==
    "| " \o Str(swatch.hex) \o " | " \o swatch.name \o " | "
        \o swatch.usage_hint \o " |"

RECURSIVE SpecRows(_)
SpecRows(palette_spec) ==
    IF palette_spec = <<>> THEN <<>>
    ELSE <<SpecRow(Head(palette_spec))>> \o SpecRows(Tail(palette_spec))

\* mutant: the table stops after the dominant swatch
SwatchRowsDominantOnly(colors) ==
    IF colors = <<>> THEN <<>> ELSE <<SwatchRow(Head(colors))>>

RECURSIVE SwatchRows(_)
SwatchRows(colors) ==
    IF colors = <<>> THEN <<>>
    ELSE <<SwatchRow(Head(colors))>> \o SwatchRows(Tail(colors))

color_section(palette, palette_spec) ==
    LET colors == palette
        closing ==
            <<"", "- Ensure minimum 4.5:1 contrast for primary copy against backgrounds.",
              "- Assign accent hues to thrive data streams; limit to 20% coverage per layout.">>
    IN  IF palette_spec # <<>>
        THEN Section("Color",
                     <<"### Palette Overview",
                       "| Hex | Names | Usage | Finishes | Notes |",
                       "| --- | ----- | ----- | -------- | ----- |">>
                         \o SpecRows(palette_spec) \o closing)
        ELSE IF colors = <<>>
        THEN Section("Color",
                     <<"### Palette Overview",
                       "- No colors detected; verify source assets and rerun analysis.">>)
        ELSE Section("Color",
                     <<"### Palette Overview",
                       "| Hex | Name | Recommended Usage |",
                       "| --- | ---- | ----------------- |">>
                         \o SwatchRows(colors) \o closing)

RECURSIVE NoteLines(_)
NoteLines(notes) ==
    IF notes = <<>> THEN <<>>
    ELSE <<"- " \o Head(notes)>> \o NoteLines(Tail(notes))

RECURSIVE ConfidenceLines(_)
ConfidenceLines(entries) ==
    IF entries = <<>> THEN <<>>
    ELSE <<"- **" \o Head(entries).image \o ":** " \o Head(entries).note>>
             \o ConfidenceLines(Tail(entries))

production_notes_section(production_notes, confidence_notes) ==
    LET notes == IF production_notes # <<>>
                 THEN <<"### Production Notes">> \o NoteLines(production_notes)
                 ELSE <<>>
        lines == IF confidence_notes # <<>>
                 THEN notes \o (IF notes # <<>> THEN <<"">> ELSE <<>>)
                          \o <<"### Confidence & Follow-ups">>
                          \o ConfidenceLines(confidence_notes)
                 ELSE notes
    IN  Section("Production References",
                IF lines # <<>> THEN lines ELSE <<"- No outstanding notes.">>)

\* max(0.5 - idx * 0.1, 0.1), in hundredths
SpecProminence(idx) == IF 50 - idx * 10 > 10 THEN 50 - idx * 10 ELSE 10

RECURSIVE SpecSwatches(_, _)
SpecSwatches(palette_spec, idx) ==
    IF palette_spec = <<>> THEN <<>>
    ELSE LET color == Head(palette_spec)
         IN  <<[hex |-> color.hex,
                name |-> IF color.names # <<>> THEN color.names[1]
                         ELSE Str(color.hex),
                prominence |-> SpecProminence(idx),
                usage_hint |-> IF color.usage_notes # <<>>
                               THEN JoinStr(color.usage_notes, ", ")
                               ELSE "Detail accent"]>>
                 \o SpecSwatches(Tail(palette_spec), idx + 1)

swatches_from_palette_spec(palette_spec) ==
    IF palette_spec = <<>>
    THEN <<[hex |-> <<"#", "0", "0", "A", "1", "D", "E">>, name |-> "Bynder Blue",
            prominence |-> 60, usage_hint |-> "Primary anchor"]>>
    ELSE SpecSwatches(palette_spec, 0)

\* the value stands for an exception on its way out of the call
Raised(value) == "raised_by" \in DOMAIN value

Title(brand_name) == brand_name \o " Brand Guidelines (Auto-generated)"

\* mutant: the section is appended for production notes only
ProductionSectionNotesOnly(production_notes, confidence_notes) ==
    IF production_notes # <<>>
    THEN <<production_notes_section(production_notes, confidence_notes)>>
    ELSE <<>>

\* `if production_notes or confidence_notes: sections.append(...)`: what the
\* statement adds to sections; build_document has no confidence notes
ProductionSection(production_notes, confidence_notes) ==
    IF production_notes # <<>> \/ confidence_notes # <<>>
    THEN <<production_notes_section(production_notes, confidence_notes)>>
    ELSE <<>>

\* mutant: the Color section is appended before the Logo section
build_documentColorBeforeLogo(evidence, brand_name) ==
    LET palette == evidence.palette
        tone == tone_of_voice_section(palette, evidence.typography,
                                      evidence.copy_observations, None, None)
    IN  IF Raised(tone) THEN tone
        ELSE [kind |-> "document",
              value |-> GuidelineDocument(
                  Title(brand_name),
                  <<tone,
                    social_media_section(evidence.layout_patterns, <<>>, <<>>, <<>>),
                    visual_system_section(palette, evidence, None, None),
                    corner_radius_section(evidence, None),
                    iconography_section(palette, <<>>),
                    color_section(palette, <<>>),
                    logo_section(palette, <<>>)>>
                      \o ProductionSection(evidence.production_notes, <<>>))]

\* the GuidelineDocument, or the exception that leaves the call; a keyword
\* left at None is None for a dict and the empty list for a list, which take
\* the same branch of every `if` that reads it
build_document(evidence, brand_name) ==
    LET palette == evidence.palette
        tone == tone_of_voice_section(palette, evidence.typography,
                                      evidence.copy_observations, None, None)
    IN  IF Raised(tone) THEN tone
        ELSE [kind |-> "document",
              value |-> GuidelineDocument(
                  Title(brand_name),
                  <<tone,
                    social_media_section(evidence.layout_patterns, <<>>, <<>>, <<>>),
                    visual_system_section(palette, evidence, None, None),
                    corner_radius_section(evidence, None),
                    iconography_section(palette, <<>>),
                    logo_section(palette, <<>>),
                    color_section(palette, <<>>)>>
                      \o ProductionSection(evidence.production_notes, <<>>))]

build_document_from_spec(design_spec, brand_name, evidence) ==
    LET compiled == design_spec.compiled
        brand_spec == compiled.brand_identity
        voice_spec == compiled.voice_and_copy
        visual_spec == compiled.visual_identity
        layout_spec == compiled.layout_and_components
        palette_spec == visual_spec.color_palette
        imagery_spec == visual_spec.imagery_style.iconography
        logo_usage == visual_spec.logo_usage
        production_notes == compiled.production_notes
        confidence_notes == compiled.confidence_notes
        palette_swatches == swatches_from_palette_spec(palette_spec)
        layout_labels == IF evidence # None THEN evidence.layout_patterns ELSE <<>>
        copy_lines == IF evidence # None THEN evidence.copy_observations ELSE <<>>
        tone == tone_of_voice_section(palette_swatches, <<>>, copy_lines,
                                      voice_spec, brand_spec)
    IN  IF Raised(tone) THEN tone
        ELSE [kind |-> "document",
              value |-> GuidelineDocument(
                  Title(brand_name),
                  <<tone,
                    social_media_section(layout_labels, brand_spec.design_context,
                                         layout_spec.key_components,
                                         layout_spec.call_to_action_treatment),
                    visual_system_section(palette_swatches, evidence, visual_spec,
                                          layout_spec),
                    corner_radius_section(evidence, layout_spec),
                    iconography_section(palette_swatches, imagery_spec),
                    logo_section(palette_swatches, logo_usage),
                    color_section(palette_swatches, palette_spec)>>
                      \o ProductionSection(production_notes, confidence_notes))]

\* str.lower().replace(" ", "-") of the section titles
Anchor ==
    ("Tone of Voice" :> "tone-of-voice") @@ ("Social Media" :> "social-media")
    @@ ("Visual System" :> "visual-system") @@ ("Corner Radius" :> "corner-radius")
    @@ ("Iconography" :> "iconography") @@ ("Logo" :> "logo")
    @@ ("Color" :> "color")
    @@ ("Production References" :> "production-references")

RECURSIVE ContentsLines(_)
ContentsLines(sections) ==
    IF sections = <<>> THEN <<>>
    ELSE <<"- [" \o Head(sections).title \o "](#" \o Anchor[Head(sections).title]
               \o ")">> \o ContentsLines(Tail(sections))

RECURSIVE SectionLines(_)
SectionLines(sections) ==
    IF sections = <<>> THEN <<>>
    ELSE LET body == Head(sections).body
         IN  <<"## " \o Head(sections).title, "">> \o body
                 \o (IF body # <<>> /\ body[Len(body)] # "" THEN <<"">> ELSE <<>>)
                 \o <<"***", "">> \o SectionLines(Tail(sections))

\* the lines that render_markdown joins with "\n"
render_markdown(document) ==
    <<"# " \o document.title, "", "## Table of Contents", "">>
        \o ContentsLines(document.sections)
        \o <<"", "***", "">>
        \o SectionLines(document.sections)
        \o <<"_Generated from current design asset gallery._">>

(***************************************************************************)
(* The synthesis run: a caller holds an evidence, or a design spec of the  *)
(* shape aggregate_guidelines returns and the local evidences it passes    *)
(* with it, one per call, and has the document built.                      *)
(***************************************************************************)
MaxDocImages == 2       \* images behind the evidence of build_document
MaxPaletteEntries == 3  \* entries of the color palette of a design spec

BrandNames == {"Bynder", "TestBrand"}

HexNavy == <<"#", "1", "1", "2", "2", "4", "4">>

CopySale == <<"S", "A", "L", "E">>
CopyLong == <<"a", " ", "b", "b", " ", "c", " ", "d", " ", "e">>

DocPalettes ==
    {<<>>,
     <<ColorSwatch(HexBlue, "Bynder Blue", 50)>>,
     <<ColorSwatch(HexBlue, "Bynder Blue", 50), ColorSwatch(HexRed, "Warm Red", 30),
       ColorSwatch(HexNavy, "Navy", 20)>>}

DocLayouts ==
    {None,
     LayoutSummary(160, "landscape", 24, <<"center">>),
     LayoutSummary(60, "portrait", 60, <<"top-left", "center">>)}

DocCopies == {<<>>, <<CopySale>>, <<CopyLong>>}

\* an extraction as extract_from_path returns it for these signals
DocImage(colors, layout, copy) ==
    LET typography == build_typography_samples(copy)
    IN  ImageExtraction(DefaultSource, colors, typography, layout, copy,
                        ExtractionNotes(colors, typography, copy))

DocImages ==
    {DocImage(colors, layout, copy) :
        colors \in DocPalettes, layout \in DocLayouts, copy \in DocCopies}

\* the local evidences of the calls with a design spec: none, or one image's
SpecEvidences ==
    {None, consolidate(<<>>)}
        \cup {consolidate(<<DocImage(colors, layout, copy)>>) :
                 colors \in {<<>>, <<ColorSwatch(HexRed, "Warm Red", 30)>>},
                 layout \in DocLayouts, copy \in {<<>>, <<CopySale>>}}

\* an entry of compiled.visual_identity.color_palette
PaletteSpecEntry(hex, names, usage_notes) ==
    [hex |-> hex, names |-> names, usage_notes |-> usage_notes,
     finishes |-> <<>>, additional_notes |-> <<>>,
     source_images |-> <<"assets/hero.png">>]

\* palette entries in ascending order of hex, as finalized_palette.sort
\* leaves them; a hex is any non-empty string, stripped and uppercased
PaletteSpecEntries ==
    <<PaletteSpecEntry(HexBlue, <<"Ocean">>, <<"Backgrounds">>),
      PaletteSpecEntry(HexNavy, <<>>, <<>>),
      PaletteSpecEntry(<<"#", "F", "F", "F">>, <<>>, <<"Text">>),
      PaletteSpecEntry(<<"R", "E", "D">>, <<"Signal">>, <<>>)>>

\* the entries of s at the positions of the set, in ascending position
RECURSIVE Picked(_, _)
Picked(s, positions) ==
    IF positions = {} THEN <<>>
    ELSE LET first == Min(positions)
         IN  <<s[first]>> \o Picked(s, positions \ {first})

PaletteSpecs ==
    {Picked(PaletteSpecEntries, positions) :
        positions \in {P \in SUBSET (1..Len(PaletteSpecEntries)) :
                          Cardinality(P) <= MaxPaletteEntries}}

\* compiled without palette and notes: every list empty, or every list filled
CompiledProfiles ==
    {[brand_identity |->
          [brand_names |-> <<>>, design_context |-> <<>>,
           core_attributes |-> <<>>, taglines |-> <<>>],
      visual_identity |->
          [typography |-> <<>>, logo_usage |-> <<>>,
           imagery_style |->
               [photography |-> <<>>, illustration |-> <<>>,
                iconography |-> <<>>, textures_and_patterns |-> <<>>]],
      layout_and_components |->
          [grid_and_spacing |-> <<>>, key_components |-> <<>>,
           call_to_action_treatment |-> <<>>, interaction_notes |-> <<>>],
      voice_and_copy |->
          [tone_descriptors |-> <<>>, messaging_pillars |-> <<>>,
           dos |-> <<>>, donts |-> <<>>]],
     [brand_identity |->
          [brand_names |-> <<"Acme">>, design_context |-> <<"Retail">>,
           core_attributes |-> <<"Bold", "Open">>, taglines |-> <<"Go far">>],
      visual_identity |->
          [typography |-> <<>>, logo_usage |-> <<"Top left">>,
           imagery_style |->
               [photography |-> <<"Candid">>, illustration |-> <<>>,
                iconography |-> <<"Rounded">>,
                textures_and_patterns |-> <<"Grain">>]],
      layout_and_components |->
          [grid_and_spacing |-> <<"12 columns">>, key_components |-> <<"Hero">>,
           call_to_action_treatment |-> <<"Pill button">>,
           interaction_notes |-> <<"Hover lift">>],
      voice_and_copy |->
          [tone_descriptors |-> <<"Warm">>,
           messaging_pillars |-> <<"Speed", "Trust">>,
           dos |-> <<"Be brief">>, donts |-> <<"Shout">>]]}

ProductionNoteLists == {<<>>, <<"Print in CMYK">>}

ConfidenceNoteLists ==
    {<<>>, << [image |-> "assets/hero.png", note |-> "Logo partly cropped"] >>}

\* what aggregate_guidelines returns
DesignSpec(profile, palette, production_notes, confidence_notes) ==
    [images_analyzed |-> 1,
     compiled |->
         [brand_identity |-> profile.brand_identity,
          visual_identity |->
              [color_palette |-> palette,
               typography |-> profile.visual_identity.typography,
               logo_usage |-> profile.visual_identity.logo_usage,
               imagery_style |-> profile.visual_identity.imagery_style],
          layout_and_components |-> profile.layout_and_components,
          voice_and_copy |-> profile.voice_and_copy,
          production_notes |-> production_notes,
          confidence_notes |-> confidence_notes],
     per_image |-> <<>>]

MaxLabelImages == 4     \* images of an evidence made of layouts only

\* a swatch as extract_colors makes it for a palette color
SwatchOf(rgb, prominence) ==
    ColorSwatch(hex_code(rgb), closest_named_color(rgb), prominence)

White == <<255, 255, 255>>
Navy == <<17, 34, 68>>

\* brightness on 0.35 (the first two, the first one rounded below), just
\* under 0.35, on 0.6 (the next two, the first one rounded below), just
\* under 0.6, dark and bright
ToneColors ==
    {<<1, 104, 203>>, <<15, 117, 33>>, <<15, 117, 32>>,
     <<37, 200, 29>>, <<6, 197, 150>>, <<6, 197, 149>>, Navy, White}

TonePalettes ==
    {<<SwatchOf(rgb, 100)>> : rgb \in ToneColors}
        \cup {<<SwatchOf(Navy, 60), SwatchOf(White, 40)>>,
              <<SwatchOf(White, 60), SwatchOf(Navy, 40)>>}

\* copy of no letters, of 1 uppercase letter in 5 and in 4, 2 in 3, 11 in 20,
\* 5 in 9, and 4 in 18 over two lines
CasingCopies ==
    {<< <<"1", "2", "3">> >>,
     << <<"A", "b", "c", "d", "e">> >>,
     << <<"A", "b", "c", "d">> >>,
     << <<"A", "B", "c">> >>,
     << <<"A", "B", "C", "D", "E", "F", "G", "H", "I", "J", "K",
          "a", "b", "c", "d", "e", "f", "g", "h", "i">> >>,
     << <<"A", "B", "C", "D", "E", "a", "b", "c", "d">> >>,
     <<CopySale, <<"n", "o", "w", " ", "o", "n", " ", "s", "a", "l", "e", " ",
                   "t", "o", "d", "a", "y">> >>}

LabelLayouts ==
    {LayoutSummary(160, "landscape", 50, <<>>),
     LayoutSummary(60, "portrait", 50, <<>>),
     LayoutSummary(100, "square", 50, <<>>)}

\* the images of an evidence in which one signal varies: the palette, the
\* copy, or the layouts of up to MaxLabelImages images
SectionInputs ==
    {<<DocImage(colors, None, <<>>)>> : colors \in TonePalettes}
        \cup {<<DocImage(<<>>, None, copy)>> : copy \in CasingCopies}
        \cup {[i \in 1..Len(layouts) |-> DocImage(<<>>, layouts[i], <<>>)] :
                 layouts \in SeqsUpTo(LabelLayouts, MaxLabelImages)}

InitDocument ==
    /\ outcome = NoOutcome
    /\ documents = <<>>
    /\ markdown = <<>>
    /\ vision = NoVision
    /\ \/ \E images \in SeqsUpTo(DocImages, MaxDocImages) \cup SectionInputs,
             brand_name \in BrandNames :
             /\ extractions = images
             /\ given = images
             /\ returned = <<consolidate(images)>>
             /\ env = [mode |-> "local", brand_name |-> brand_name]
       \/ \E profile \in CompiledProfiles, palette \in PaletteSpecs,
             production_notes \in ProductionNoteLists,
             confidence_notes \in ConfidenceNoteLists,
             first \in SpecEvidences, second \in SpecEvidences :
             /\ extractions = <<>>
             /\ given = <<>>
             /\ returned = <<>>
             /\ env = [mode |-> "spec", brand_name |-> "Bynder",
                       design_spec |-> DesignSpec(profile, palette,
                                                  production_notes,
                                                  confidence_notes),
                       evidences |-> <<first, second>>]

\* build_document on the evidence consolidate returned
BuildDocument ==
    /\ env.mode = "local"
    /\ returned # <<>>
    /\ documents = <<>>
    /\ documents' = <<build_document(returned[Len(returned)], env.brand_name)>>
    /\ UNCHANGED <<extractions, given, returned, env, outcome, markdown, vision>>

\* build_document_from_spec on the design spec, with the next local evidence
BuildDocumentFromSpec ==
    /\ env.mode = "spec"
    /\ Len(documents) < Len(env.evidences)
    /\ documents' = Append(documents,
                           build_document_from_spec(
                               env.design_spec, env.brand_name,
                               env.evidences[Len(documents) + 1]))
    /\ UNCHANGED <<extractions, given, returned, env, outcome, markdown, vision>>

NextDocument == BuildDocument \/ BuildDocumentFromSpec

SpecDocument == InitDocument /\ [][NextDocument]_vars

(***************************************************************************)
(* The local chain of the test and of the command line: one image is       *)
(* extracted, the extraction aggregated, the document built and rendered.  *)
(***************************************************************************)
InitChain ==
    /\ extractions = <<>>
    /\ given = <<>>
    /\ returned = <<>>
    /\ outcome = NoOutcome
    /\ documents = <<>>
    /\ markdown = <<>>
    /\ vision = NoVision
    /\ \E path \in Sources, brand_name \in BrandNames :
          \/ env = [mode |-> "local", brand_name |-> brand_name, path |-> path,
                    decodable |-> FALSE, image |-> NoImage, ocr |-> NoOcr]
          \/ \E shape \in Shapes, palette \in Palettes,
                pixels \in SeqsUpTo(0..1, MaxPixels) \ {<<>>} :
                \E ocr \in {NoOcr, [status |-> "raises"]}
                           \cup {[status |-> "ok", text |-> line] :
                                    line \in RawLines} :
                    env = [mode |-> "local", brand_name |-> brand_name,
                           path |-> path, decodable |-> TRUE,
                           image |-> [width |-> shape.width,
                                      height |-> shape.height,
                                      whitespace |-> shape.whitespace,
                                      darkness |-> shape.darkness,
                                      palette |-> palette, pixels |-> pixels],
                           ocr |-> ocr]

\* evidence = consolidate([extraction]) on the extraction just returned
AggregateExtraction ==
    /\ outcome.kind = "extraction"
    /\ returned = <<>>
    /\ extractions' = <<outcome.value>>
    /\ given' = <<outcome.value>>
    /\ returned' = <<consolidate(<<outcome.value>>)>>
    /\ UNCHANGED <<env, outcome, documents, markdown, vision>>

\* render_markdown on the document just built
RenderMarkdown ==
    /\ documents # <<>>
    /\ documents[Len(documents)].kind = "document"
    /\ markdown = <<>>
    /\ markdown' = render_markdown(documents[Len(documents)].value)
    /\ UNCHANGED <<extractions, given, returned, env, outcome, documents, vision>>

NextChain ==
    ExtractFromPath \/ AggregateExtraction \/ BuildDocument \/ RenderMarkdown

SpecChain == InitChain /\ [][NextChain]_vars

(***************************************************************************)
(* The color run: one call of extract_colors with a palette size, on an    *)
(* image of which the quantizer returns a palette and the palette index of *)
(* every pixel.                                                            *)
(***************************************************************************)
MaxColorsAsked == 3   \* the palette sizes max_colors of the calls

\* pixel counts that divide 100, so that a prominence in hundredths is exact
PixelCounts == {1, 2, 4, 5}

QuantizedPalettes ==
    {<<>>, << <<0, 161, 222>> >>, << <<0, 161, 222>>, <<200, 48, 48>> >>,
     << <<0, 161, 222>>, <<200, 48, 48>>, <<17, 34, 68>> >>}

InitColors ==
    /\ extractions = <<>>
    /\ given = <<>>
    /\ returned = <<>>
    /\ outcome = NoOutcome
    /\ documents = <<>>
    /\ markdown = <<>>
    /\ vision = NoVision
    /\ \E max_colors \in 1..MaxColorsAsked, palette \in QuantizedPalettes,
          n \in PixelCounts :
          \E pixels \in [1..n -> 0..2] :
              env = [max_colors |-> max_colors,
                     image |-> [palette |-> palette, pixels |-> pixels]]

ExtractColors ==
    /\ outcome = NoOutcome
    /\ outcome' = [kind |-> "colors",
                   value |-> extract_colors(env.image, env.max_colors)]
    /\ UNCHANGED <<extractions, given, returned, env, documents, markdown, vision>>

NextColors == ExtractColors

SpecColors == InitColors /\ [][NextColors]_vars

(***************************************************************************)
(* The vision-model path (cli.py, openai_integration.py).  The strings of  *)
(* a per-image result are sequences of characters; the compiled design     *)
(* spec holds TLA+ strings, but for the hex of a palette entry.            *)
(***************************************************************************)
\* the characters of the inputs in ascending order of code point
CodePoints ==
    <<" ", "#", ".", "/",
      "0", "1", "2", "3", "4", "5", "6", "7", "8", "9",
      "A", "B", "C", "D", "E", "F", "G", "H", "I", "J", "K", "L", "M",
      "N", "O", "P", "Q", "R", "S", "T", "U", "V", "W", "X", "Y", "Z",
      "a", "b", "c", "d", "e", "f", "g", "h", "i", "j", "k", "l", "m",
      "n", "o", "p", "q", "r", "s", "t", "u", "v", "w", "x", "y", "z">>

Code(c) == CHOOSE i \in 1..Len(CodePoints) : CodePoints[i] = c

\* a < b for two str
RECURSIVE StrLess(_, _)
StrLess(a, b) ==
    IF b = <<>> THEN FALSE
    ELSE IF a = <<>> THEN TRUE
    ELSE IF Head(a) = Head(b) THEN StrLess(Tail(a), Tail(b))
    ELSE Code(Head(a)) < Code(Head(b))

\* sorted(values) of a set of str
RECURSIVE Sorted(_)
Sorted(values) ==
    IF values = {} THEN <<>>
    ELSE LET least == CHOOSE x \in values :
                          \A y \in values \ {x} : StrLess(x, y)
         IN  <<least>> \o Sorted(values \ {least})

StrAll(items) == [i \in 1..Len(items) |-> Str(items[i])]

\* sorted(values), each str as a TLA+ string
SortedStr(values) == StrAll(Sorted(values))

\* list.sort(key=...): a stable sort of items by their sort_key
RECURSIVE InsertByKey(_, _)
InsertByKey(sorted, x) ==
    IF sorted = <<>> THEN <<x>>
    ELSE IF StrLess(x.sort_key, Head(sorted).sort_key) THEN <<x>> \o sorted
    ELSE <<Head(sorted)>> \o InsertByKey(Tail(sorted), x)

RECURSIVE SortedByKey(_)
SortedByKey(items) ==
    IF items = <<>> THEN <<>>
    ELSE InsertByKey(SortedByKey(SubSeq(items, 1, Len(items) - 1)),
                     items[Len(items)])

\* _maybe_add
maybe_add(value, target) ==
    LET cleaned == Strip(value)
    IN  IF cleaned # <<>> THEN target \cup {cleaned} ELSE target

\* _merge_sets
RECURSIVE merge_sets(_, _)
merge_sets(source, target) ==
    IF source = <<>> THEN target
    ELSE merge_sets(Tail(source), maybe_add(Head(source), target))

\* compiled, as aggregate_guidelines starts with it
NewCompiled ==
    [brand_identity |->
         [brand_names |-> {}, design_context |-> {}, core_attributes |-> {},
          taglines |-> {}],
     visual_identity |->
         [color_palette |-> <<>>, typography |-> <<>>, logo_usage |-> {},
          imagery_style |->
              [photography |-> {}, illustration |-> {}, iconography |-> {},
               textures_and_patterns |-> {}]],
     layout_and_components |->
         [grid_and_spacing |-> {}, key_components |-> {},
          call_to_action_treatment |-> {}, interaction_notes |-> {}],
     voice_and_copy |->
         [tone_descriptors |-> {}, messaging_pillars |-> {}, dos |-> {},
          donts |-> {}],
     production_notes |-> {},
     confidence_notes |-> <<>>]

NewColorEntry(hex_value) ==
    [hex |-> hex_value, names |-> {}, usage_notes |-> {}, finishes |-> {},
     additional_notes |-> {}, source_images |-> {}]

\* the body of the loop over the colors of one result
MergePaletteColor(palette, color, image_path) ==
    LET hex_value == Upper(Strip(color.hex))
    IN  IF hex_value = <<>> THEN palette
        ELSE LET entry == IF DictHas(palette, hex_value)
                          THEN DictGet(palette, hex_value)
                          ELSE NewColorEntry(hex_value)
             IN  DictSet(palette, hex_value,
                         [hex |-> entry.hex,
                          names |-> maybe_add(color.name, entry.names),
                          usage_notes |-> maybe_add(color.usage, entry.usage_notes),
                          finishes |-> maybe_add(color.finish, entry.finishes),
                          additional_notes |->
                              maybe_add(color.notes, entry.additional_notes),
                          source_images |->
                              IF image_path # <<>>
                              THEN entry.source_images \cup {image_path}
                              ELSE entry.source_images])

RECURSIVE MergePaletteColors(_, _, _)
MergePaletteColors(palette, colors, image_path) ==
    IF colors = <<>> THEN palette
    ELSE MergePaletteColors(MergePaletteColor(palette, Head(colors), image_path),
                            Tail(colors), image_path)

Unspecified == <<"u", "n", "s", "p", "e", "c", "i", "f", "i", "e", "d">>

\* f"{family.lower()}::{style.lower()}"
TypeKey(family, style) == Lower(family) \o <<":", ":">> \o Lower(style)

\* the body of the loop over the typography of one result
MergeTypo(type_map, typo, image_path) ==
    LET family == Strip(typo.family)
        style == IF Strip(typo.style) # <<>> THEN Strip(typo.style)
                 ELSE Unspecified
        key == TypeKey(family, style)
        entry == IF DictHas(type_map, key) THEN DictGet(type_map, key)
                 ELSE [family |-> family, styles |-> {}, usage |-> {},
                       size_ranges |-> {}, tracking |-> {}, notes |-> {},
                       source_images |-> {}]
    IN  IF family = <<>> THEN type_map
        ELSE DictSet(type_map, key,
                     [family |-> entry.family,
                      styles |-> entry.styles \cup {style},
                      usage |-> maybe_add(typo.usage, entry.usage),
                      size_ranges |-> maybe_add(typo.size_range, entry.size_ranges),
                      tracking |-> maybe_add(typo.tracking, entry.tracking),
                      notes |-> maybe_add(typo.notes, entry.notes),
                      source_images |->
                          IF image_path # <<>>
                          THEN entry.source_images \cup {image_path}
                          ELSE entry.source_images])

RECURSIVE MergeTypos(_, _, _)
MergeTypos(type_map, typography, image_path) ==
    IF typography = <<>> THEN type_map
    ELSE MergeTypos(MergeTypo(type_map, Head(typography), image_path),
                    Tail(typography), image_path)

\* the body of the loop over per_image_list
MergeRecord(compiled, record) ==
    LET image_path == record.image
        data == record.guidelines
        identity == data.brand_identity
        visual == data.visual_identity
        imagery == visual.imagery_style
        layout == data.layout_and_components
        voice == data.voice_and_copy
        confidence == Strip(data.confidence)
    IN  [brand_identity |->
             [brand_names |->
                  maybe_add(identity.brand_name, compiled.brand_identity.brand_names),
              design_context |->
                  merge_sets(identity.design_context,
                             compiled.brand_identity.design_context),
              core_attributes |->
                  merge_sets(identity.core_attributes,
                             compiled.brand_identity.core_attributes),
              taglines |->
                  maybe_add(identity.tagline, compiled.brand_identity.taglines)],
         visual_identity |->
             [color_palette |->
                  MergePaletteColors(compiled.visual_identity.color_palette,
                                     visual.color_palette, image_path),
              typography |->
                  MergeTypos(compiled.visual_identity.typography,
                             visual.typography, image_path),
              logo_usage |->
                  merge_sets(visual.logo_usage, compiled.visual_identity.logo_usage),
              imagery_style |->
                  [field \in DOMAIN imagery |->
                      merge_sets(imagery[field],
                                 compiled.visual_identity.imagery_style[field])]],
         layout_and_components |->
             [field \in DOMAIN layout |->
                 merge_sets(layout[field], compiled.layout_and_components[field])],
         voice_and_copy |->
             [field \in DOMAIN voice |->
                 merge_sets(voice[field], compiled.voice_and_copy[field])],
         production_notes |->
             merge_sets(data.production_notes, compiled.production_notes),
         confidence_notes |->
             IF confidence # <<>> /\ image_path # <<>>
             THEN Append(compiled.confidence_notes,
                         [image |-> Str(image_path), note |-> Str(confidence)])
             ELSE compiled.confidence_notes]

RECURSIVE MergeRecords(_, _)
MergeRecords(compiled, per_image_list) ==
    IF per_image_list = <<>> THEN compiled
    ELSE MergeRecords(MergeRecord(compiled, Head(per_image_list)),
                      Tail(per_image_list))

FinalColor(color) ==
    [sort_key |-> color.hex,
     value |-> [hex |-> color.hex,
                names |-> SortedStr(color.names),
                usage_notes |-> SortedStr(color.usage_notes),
                finishes |-> SortedStr(color.finishes),
                additional_notes |-> SortedStr(color.additional_notes),
                source_images |-> SortedStr(color.source_images)]]

FinalStyles(styles) ==
    IF styles \ {Unspecified} = {} /\ Unspecified \in styles
    THEN <<Str(Unspecified)>>
    ELSE SortedStr(styles \ {Unspecified})

FinalTypo(entry) ==
    [sort_key |-> Lower(entry.family),
     value |-> [family |-> Str(entry.family),
                styles |-> FinalStyles(entry.styles),
                usage |-> SortedStr(entry.usage),
                size_ranges |-> SortedStr(entry.size_ranges),
                tracking |-> SortedStr(entry.tracking),
                notes |-> SortedStr(entry.notes),
                source_images |-> SortedStr(entry.source_images)]]

\* mutant: the palette keeps the order in which its colors were first seen
FinalPaletteFirstSeen(color_palette) ==
    [i \in 1..Len(color_palette) |-> FinalColor(color_palette[i].value).value]

\* finalized_palette, after its sort by hex
FinalPalette(color_palette) ==
    DictValues(SortedByKey([i \in 1..Len(color_palette) |->
                               FinalColor(color_palette[i].value)]))

\* finalized_typography, after its sort by family
FinalTypography(type_map) ==
    DictValues(SortedByKey([i \in 1..Len(type_map) |->
                               FinalTypo(type_map[i].value)]))

\* _finalize_compiled
finalize_compiled(compiled) ==
    LET brand == compiled.brand_identity
        visual == compiled.visual_identity
        layout == compiled.layout_and_components
        voice == compiled.voice_and_copy
    IN  [brand_identity |->
             [brand_names |-> SortedStr(brand.brand_names),
              design_context |-> SortedStr(brand.design_context),
              core_attributes |-> SortedStr(brand.core_attributes),
              taglines |-> SortedStr(brand.taglines)],
         visual_identity |->
             [color_palette |-> FinalPalette(visual.color_palette),
              typography |-> FinalTypography(visual.typography),
              logo_usage |-> SortedStr(visual.logo_usage),
              imagery_style |->
                  [field \in DOMAIN visual.imagery_style |->
                      SortedStr(visual.imagery_style[field])]],
         layout_and_components |->
             [field \in DOMAIN layout |-> SortedStr(layout[field])],
         voice_and_copy |-> [field \in DOMAIN voice |-> SortedStr(voice[field])],
         production_notes |-> SortedStr(compiled.production_notes),
         confidence_notes |-> compiled.confidence_notes]

\* the design spec; formatted_per_image holds the records as they came
aggregate_guidelines(per_image) ==
    [images_analyzed |-> Len(per_image),
     compiled |-> finalize_compiled(MergeRecords(NewCompiled, per_image)),
     per_image |-> per_image]

SystemExit(message) ==
    [kind |-> "error", raised_by |-> "SystemExit", message |-> message]

\* mutant: a failed analysis is passed over, whatever --fail-fast says
LoopBodySkipping(run, path, guidelines, fail_fast) ==
    [vision |->
         [analyzed |-> Append(run.analyzed, path),
          per_image |->
              IF guidelines # None
              THEN Append(run.per_image, [image |-> path, guidelines |-> guidelines])
              ELSE run.per_image],
     outcome |-> NoOutcome]

\* the body of the loop of _run_openai for the path, given what analyze_image
\* returned for it: the guidelines, or None
LoopBody(run, path, guidelines, fail_fast) ==
    [vision |->
         [analyzed |-> Append(run.analyzed, path),
          per_image |->
              IF guidelines # None
              THEN Append(run.per_image, [image |-> path, guidelines |-> guidelines])
              ELSE run.per_image],
     outcome |->
         IF guidelines = None /\ fail_fast
         THEN SystemExit("Analysis failed; aborting due to --fail-fast.")
         ELSE NoOutcome]

\* _run_openai after its loop, up to the design spec
AfterLoop(per_image) ==
    IF per_image = <<>>
    THEN SystemExit("No analyses succeeded; check API credentials and retry.")
    ELSE [kind |-> "design_spec", value |-> aggregate_guidelines(per_image)]

(***************************************************************************)
(* The vision-model run: _run_openai on a list of paths, one step for each *)
(* turn of its loop and one for what follows the loop.  What analyze_image *)
(* returns for each path is drawn beforehand.                              *)
(***************************************************************************)
MaxPaths == 3      \* image paths of a run

ImagePaths == <<<<"b", ".", "p", "n", "g">>, <<"a", ".", "p", "n", "g">>, <<"c", ".", "p", "n", "g">>, <<"d", ".", "p", "n", "g">>>>

NoStrings == <<>>

Color(hex, name, usage) ==
    [name |-> name, hex |-> hex, finish |-> <<>>, usage |-> usage, notes |-> <<>>]

Typo(family, style) ==
    [family |-> family, style |-> style, size_range |-> <<>>, usage |-> <<>>,
     tracking |-> <<>>, notes |-> <<>>]

\* a result that conforms to the schema: every key present, every value a
\* string or a list
Guidelines(brand_name, color_palette, typography, notes, confidence) ==
    [brand_identity |->
         [brand_name |-> brand_name, design_context |-> notes,
          core_attributes |-> NoStrings, tagline |-> <<>>],
     visual_identity |->
         [color_palette |-> color_palette, typography |-> typography,
          logo_usage |-> NoStrings,
          imagery_style |->
              [photography |-> NoStrings, illustration |-> NoStrings,
               iconography |-> notes, textures_and_patterns |-> NoStrings]],
     layout_and_components |->
         [grid_and_spacing |-> NoStrings, key_components |-> notes,
          call_to_action_treatment |-> NoStrings, interaction_notes |-> NoStrings],
     voice_and_copy |->
         [tone_descriptors |-> notes, messaging_pillars |-> NoStrings,
          dos |-> NoStrings, donts |-> NoStrings],
     production_notes |-> notes,
     confidence |-> confidence]

AnalysisResults ==
    {Guidelines(<<"A", "c", "m", "e">>,
                <<Color(<<" ", "#", "0", "0", "a", "1", "d", "e", " ">>, <<"S", "k", "y">>, <<"H", "e", "r", "o">>),
                  Color(<<"#", "1", "1", "2", "2", "4", "4">>, <<"N", "a", "v", "y">>, <<>>)>>,
                <<Typo(<<"I", "n", "t", "e", "r">>, <<"B", "o", "l", "d">>)>>,
                <<<<"R", "e", "t", "a", "i", "l">>>>, <<"H", "i", "g", "h">>),
     Guidelines(<<" ", "a", "c", "m", "e", " ">>,
                <<Color(<<"#", "0", "0", "A", "1", "D", "E">>, <<"A", "z", "u", "r", "e">>, <<" ", "H", "e", "r", "o", " ">>),
                  Color(<<" ", " ">>, <<"G", "h", "o", "s", "t">>, <<>>)>>,
                <<Typo(<<"i", "n", "t", "e", "r">>, <<>>), Typo(<<"I", "n", "t", "e", "r">>, <<"b", "o", "l", "d">>)>>,
                <<<<" ", "R", "e", "t", "a", "i", "l">>, <<"P", "r", "i", "n", "t">>>>, <<>>),
     Guidelines(<<>>,
                <<Color(<<"#", "1", "1", "2", "2", "4", "4">>, <<>>, <<"T", "e", "x", "t">>),
                  Color(<<"#", "0", "0", "a", "1", "D", "E">>, <<"S", "k", "y">>, <<"L", "i", "n", "k", "s">>)>>,
                <<>>, <<>>, <<"L", "o", "w">>),
     Guidelines(<<>>, <<>>, <<>>, <<>>, <<>>)}

InitVision ==
    /\ extractions = <<>>
    /\ given = <<>>
    /\ returned = <<>>
    /\ outcome = NoOutcome
    /\ documents = <<>>
    /\ markdown = <<>>
    /\ vision = NoVision
    /\ \E n \in 1..MaxPaths, fail_fast \in BOOLEAN :
           \E answers \in [1..n -> AnalysisResults \cup {None}] :
               env = [paths |-> SubSeq(ImagePaths, 1, n),
                      fail_fast |-> fail_fast,
                      answers |-> answers]

\* one turn of the loop: analyze_image on the next path, then the loop body
AnalyzeImage ==
    /\ outcome = NoOutcome
    /\ Len(vision.analyzed) < Len(env.paths)
    /\ LET idx == Len(vision.analyzed) + 1
           step == LoopBody(vision, env.paths[idx], env.answers[idx],
                            env.fail_fast)
       IN  /\ vision' = step.vision
           /\ outcome' = step.outcome
    /\ UNCHANGED <<extractions, given, returned, env, documents, markdown>>

\* the loop is over: SystemExit, or aggregate_guidelines on per_image
AggregateGuidelines ==
    /\ outcome = NoOutcome
    /\ Len(vision.analyzed) = Len(env.paths)
    /\ outcome' = AfterLoop(vision.per_image)
    /\ UNCHANGED <<extractions, given, returned, env, documents, markdown, vision>>

NextVision == AnalyzeImage \/ AggregateGuidelines

SpecVision == InitVision /\ [][NextVision]_vars

(***************************************************************************)
(* Vocabulary of the properties.                                           *)
(***************************************************************************)
\* the latest call: every call is the latest one in the state it returns to
Calls == IF returned = <<>> THEN {} ELSE {Len(returned)}

RECURSIVE AllColors(_)
AllColors(images) ==
    IF images = <<>> THEN <<>> ELSE Head(images).colors \o AllColors(Tail(images))

RECURSIVE AllTypography(_)
AllTypography(images) ==
    IF images = <<>> THEN <<>>
    ELSE Head(images).typography \o AllTypography(Tail(images))

RECURSIVE AllCopy(_)
AllCopy(images) ==
    IF images = <<>> THEN <<>>
    ELSE Head(images).detected_copy \o AllCopy(Tail(images))

HexKey(swatch) == Upper(swatch.hex)

Triple(sample) == <<sample.classification, sample.weight, sample.casing>>

Count(seq, x) == Cardinality({i \in 1..Len(seq) : seq[i] = x})

HasLayout(extraction) == extraction.layout # None

Dense(extraction) ==
    HasLayout(extraction) /\ extraction.layout.whitespace_ratio < 25

\* C1: the aggregated palette has at most one swatch per uppercased hex, and
\* the prominence of each palette swatch is the maximum prominence of the
\* input swatches with that uppercased hex, over all images and within one.
PaletteUniqueMaxProminence ==
    \A n \in Calls :
        LET pal == returned[n].palette
            all == AllColors(extractions)
        IN  /\ \A i, j \in 1..Len(pal) : i # j => HexKey(pal[i]) # HexKey(pal[j])
            /\ \A i \in 1..Len(pal) :
                 /\ \E m \in 1..Len(all) :
                        /\ HexKey(all[m]) = HexKey(pal[i])
                        /\ all[m].prominence = pal[i].prominence
                 /\ \A m \in 1..Len(all) :
                        HexKey(all[m]) = HexKey(pal[i])
                            => all[m].prominence <= pal[i].prominence

\* C1 witness: one image repeats a hex (in two spellings) with two prominences
RepeatedHexAggregated ==
    /\ returned # <<>>
    /\ \E e \in Range(extractions) :
          \E i, j \in 1..Len(e.colors) :
              /\ i < j
              /\ e.colors[i].hex # e.colors[j].hex
              /\ HexKey(e.colors[i]) = HexKey(e.colors[j])
              /\ e.colors[i].prominence < e.colors[j].prominence

\* C2: the palette is in descending prominence; of the input swatches of one
\* hex with the kept prominence the first encountered is the instance kept;
\* palette entries of equal prominence are in the order their hex was first
\* seen.
PaletteOrderedFirstSeen ==
    \A n \in Calls :
        LET pal == returned[n].palette
            all == AllColors(extractions)
            FirstSeen(key) == Min({m \in 1..Len(all) : HexKey(all[m]) = key})
            FirstEqual(sw) ==
                Min({m \in 1..Len(all) :
                        /\ HexKey(all[m]) = HexKey(sw)
                        /\ all[m].prominence = sw.prominence})
        IN  /\ \A i, j \in 1..Len(pal) :
                 i < j => pal[i].prominence >= pal[j].prominence
            /\ \A i \in 1..Len(pal) : pal[i] = all[FirstEqual(pal[i])]
            /\ \A i, j \in 1..Len(pal) :
                 (i < j /\ pal[i].prominence = pal[j].prominence)
                     => FirstSeen(HexKey(pal[i])) < FirstSeen(HexKey(pal[j]))

\* C2 witness: an exact tie between two spellings of one hex, and a tie
\* between that hex and another one seen after it
PaletteTiesAggregated ==
    /\ returned # <<>>
    /\ LET all == AllColors(extractions)
       IN  /\ Len(all) = 3
           /\ all[1].hex = HexBlueLower /\ all[2].hex = HexRed /\ all[3].hex = HexBlue
           /\ \A m \in 1..3 : all[m].prominence = 50
           /\ Len(returned[1].palette) = 2

Reverse(s) == [i \in 1..Len(s) |-> s[Len(s) + 1 - i]]

PaletteEntry(palette, key) ==
    palette[CHOOSE i \in 1..Len(palette) : HexKey(palette[i]) = key]

OnlySwatchOfHex(extraction, swatch) ==
    \A c \in Range(extraction.colors) : HexKey(c) = HexKey(swatch) => c = swatch

\* C3: two extractions A and B that share a hex with different prominences
\* give, for that hex, the swatch of higher prominence, in the order [A, B]
\* and in the order [B, A].
PaletteOrderTolerant ==
    \A n \in Calls :
        Len(extractions) = 2 =>
            \A a \in Range(extractions[1].colors) :
                \A b \in Range(extractions[2].colors) :
                    (/\ HexKey(a) = HexKey(b)
                     /\ a.prominence # b.prominence
                     /\ OnlySwatchOfHex(extractions[1], a)
                     /\ OnlySwatchOfHex(extractions[2], b))
                    => LET higher == IF a.prominence > b.prominence THEN a ELSE b
                       IN  /\ PaletteEntry(returned[n].palette, HexKey(a)) = higher
                           /\ PaletteEntry(consolidate(Reverse(extractions)).palette,
                                           HexKey(a)) = higher

\* C3 witness: the first image holds the higher prominence of the shared hex
SharedHexAggregated ==
    /\ returned # <<>>
    /\ Len(extractions) = 2
    /\ \E a \in Range(extractions[1].colors) :
          \E b \in Range(extractions[2].colors) :
              /\ HexKey(a) = HexKey(b)
              /\ a.prominence > b.prominence
              /\ OnlySwatchOfHex(extractions[1], a)
              /\ OnlySwatchOfHex(extractions[2], b)

\* C4: the aggregated typography holds exactly one sample per triple
\* (classification, weight, casing) of the inputs, namely the first sample of
\* that triple in image order, and lists them by first occurrence.
TypographyFirstPerTriple ==
    \A n \in Calls :
        LET typ == returned[n].typography
            all == AllTypography(extractions)
            First(t) == Min({m \in 1..Len(all) : Triple(all[m]) = t})
        IN  /\ {Triple(typ[i]) : i \in 1..Len(typ)}
                 = {Triple(all[m]) : m \in 1..Len(all)}
            /\ \A i, j \in 1..Len(typ) : i # j => Triple(typ[i]) # Triple(typ[j])
            /\ \A i \in 1..Len(typ) : typ[i] = all[First(Triple(typ[i]))]
            /\ \A i, j \in 1..Len(typ) :
                 i < j => First(Triple(typ[i])) < First(Triple(typ[j]))

\* C4 witness: two images give a sample of the same triple with two texts
SameTripleAggregated ==
    /\ returned # <<>>
    /\ Len(extractions) = 2
    /\ \E s \in Range(extractions[1].typography) :
          \E t \in Range(extractions[2].typography) :
              Triple(s) = Triple(t) /\ s.text # t.text

RECURSIVE OrientationsOf(_)
OrientationsOf(images) ==
    IF images = <<>> THEN <<>>
    ELSE (IF HasLayout(Head(images))
          THEN <<Head(images).layout.dominant_orientation>> ELSE <<>>)
         \o OrientationsOf(Tail(images))

\* C5 as stated: layout_patterns has one orientation label per input image,
\* so its length is the number of input images.
LayoutPatternsOnePerImage ==
    \A n \in Calls : Len(returned[n].layout_patterns) = Len(extractions)

\* C5 amended: layout_patterns has one orientation label per input image that
\* has a layout, in image order and without deduplication; an image without
\* layout adds none.
LayoutPatternsOnePerLayout ==
    \A n \in Calls : returned[n].layout_patterns = OrientationsOf(extractions)

\* C5 witness: an image without layout and an image with one aggregated
LayoutlessImageAggregated ==
    /\ returned # <<>>
    /\ Len(extractions) = 2
    /\ ~HasLayout(extractions[1]) /\ HasLayout(extractions[2])
    /\ Len(returned[1].layout_patterns) = 1

\* C6: production_notes holds the dense-composition note of a file name once
\* for each input image of that name whose whitespace_ratio is below 0.25, and
\* not at all for an image at 0.25 or above.
DenseNotePerDenseImage ==
    \A n \in Calls :
        \A e \in Range(extractions) :
            Count(returned[n].production_notes, DenseNote(e))
                = Cardinality({i \in 1..Len(extractions) :
                                  /\ Dense(extractions[i])
                                  /\ Name(extractions[i].source) = Name(e.source)})

\* C6 witness: an image at 0.24 and an image of another name at 0.25
ThresholdImagesAggregated ==
    /\ returned # <<>>
    /\ Len(extractions) = 2
    /\ HasLayout(extractions[1]) /\ extractions[1].layout.whitespace_ratio = 24
    /\ HasLayout(extractions[2]) /\ extractions[2].layout.whitespace_ratio = 25
    /\ Name(extractions[1].source) # Name(extractions[2].source)
    /\ Count(returned[1].production_notes, DenseNote(extractions[1])) = 1
    /\ Count(returned[1].production_notes, DenseNote(extractions[2])) = 0

\* C7: consolidate of the empty list returns evidence whose collections are
\* all empty.
EmptyInputEmptyEvidence ==
    \A n \in Calls :
        extractions = <<>> =>
            /\ returned[n].images = <<>>
            /\ returned[n].palette = <<>>
            /\ returned[n].typography = <<>>
            /\ returned[n].layout_patterns = <<>>
            /\ returned[n].copy_observations = <<>>
            /\ returned[n].production_notes = <<>>

\* C7 witness: the empty list was aggregated
EmptyInputAggregated == extractions = <<>> /\ returned # <<>>

NoteBlocks(e) ==
    IF Dense(e)
    THEN {SubSeq(e.notes, 1, k) \o <<DenseNote(e)>>
              \o SubSeq(e.notes, k + 1, Len(e.notes)) : k \in 0..Len(e.notes)}
    ELSE {e.notes}

RECURSIVE BlocksInImageOrder(_)
BlocksInImageOrder(images) ==
    IF images = <<>> THEN {<<>>}
    ELSE {b \o rest : b \in NoteBlocks(Head(images)),
                       rest \in BlocksInImageOrder(Tail(images))}

\* C9: copy_observations is the concatenation of the detected_copy of the
\* images in image order; in production_notes the entries of an image (its
\* dense-composition note and its notes, these in their order) come before
\* those of every later image.
CopyAndNotesInImageOrder ==
    \A n \in Calls :
        /\ returned[n].copy_observations = AllCopy(extractions)
        /\ returned[n].production_notes \in BlocksInImageOrder(extractions)

\* C9 witness: a dense image with a note, then an image with two notes
NotesOfTwoImagesAggregated ==
    /\ returned # <<>>
    /\ Len(extractions) = 2
    /\ Dense(extractions[1]) /\ Len(extractions[1].notes) = 1
    /\ extractions[1].detected_copy # <<>>
    /\ Len(extractions[2].notes) = 2
    /\ Len(returned[1].production_notes) >= 4

\* C10: the notes of an extraction are, in this order, the no-colors note iff
\* it has no colors, the no-samples note iff it has copy but no typography
\* sample, the no-copy note iff it has no copy, and nothing else.
NotesAreTheCaveats ==
    outcome.kind = "extraction" =>
        LET e == outcome.value
        IN  e.notes
              = (IF e.colors = <<>> THEN <<NoColorsNote>> ELSE <<>>)
                \o (IF e.detected_copy # <<>> /\ e.typography = <<>>
                    THEN <<NoSamplesNote>> ELSE <<>>)
                \o (IF e.detected_copy = <<>> THEN <<NoCopyNote>> ELSE <<>>)

\* C10 witness: an extraction without colors and without copy has two notes
TwoCaveatsExtracted ==
    /\ outcome.kind = "extraction"
    /\ outcome.value.colors = <<>>
    /\ outcome.value.detected_copy = <<>>
    /\ env.ocr.status = "ok"
    /\ Len(outcome.value.notes) = 2

\* C11: when the path cannot be opened or decoded, extract_from_path ends in
\* an error for that path and returns no ImageExtraction, empty or otherwise.
UndecodableEndsInError ==
    (outcome # NoOutcome /\ ~env.decodable) =>
        /\ outcome.kind = "error"
        /\ outcome.path = env.path
        /\ outcome.kind # "extraction"

\* C11 witness: the call on an undecodable path has ended
UndecodablePathExtracted ==
    /\ ~env.decodable
    /\ outcome.kind = "error"
    /\ outcome.raised_by = "Image.open"

\* C12: whenever the text recognition is unavailable (library missing at
\* import time, or the recognition call failing at run time) or returns no
\* text, the call ends in an ImageExtraction whose detected_copy is empty.
OcrUnavailableDegradesToEmpty ==
    (/\ outcome # NoOutcome
     /\ env.decodable
     /\ \/ env.ocr.status \in {"missing", "raises"}
        \/ env.ocr.status = "ok" /\ env.ocr.text = <<>>) =>
        /\ outcome.kind = "extraction"
        /\ outcome.value.detected_copy = <<>>

\* C12, the part the code keeps: with the library missing at import time, or
\* with a recognition that returns no text, the extraction has no copy
OcrMissingDegradesToEmpty ==
    (/\ outcome # NoOutcome
     /\ env.decodable
     /\ \/ env.ocr.status = "missing"
        \/ env.ocr.status = "ok" /\ env.ocr.text = <<>>) =>
        /\ outcome.kind = "extraction"
        /\ outcome.value.detected_copy = <<>>

\* C12 witness: the recognition call failed at run time and the call ended
RecognitionFailureExtracted ==
    /\ env.decodable
    /\ env.ocr.status = "raises"
    /\ outcome # NoOutcome

\* sub is full with some of its entries left out
RECURSIVE IsSubsequence(_, _)
IsSubsequence(sub, full) ==
    IF sub = <<>> THEN TRUE
    ELSE IF full = <<>> THEN FALSE
    ELSE IF Head(sub) = Head(full) THEN IsSubsequence(Tail(sub), Tail(full))
    ELSE IsSubsequence(sub, Tail(full))

\* the trimmed lines of the recognized text, in recognition order
TrimmedLines == StripAll(SplitLines(env.ocr.text))

\* C13: detected_copy holds lines of the recognized text in recognition
\* order, every trimmed line of at least 3 characters and no other, and no
\* line twice.
DetectedCopyOrderedFilteredDistinct ==
    (outcome.kind = "extraction" /\ env.ocr.status = "ok") =>
        LET copy == outcome.value.detected_copy
        IN  /\ IsSubsequence(copy, TrimmedLines)
            /\ \A i \in 1..Len(copy) : Len(copy[i]) >= 3
            /\ \A i \in 1..Len(TrimmedLines) :
                   Len(TrimmedLines[i]) >= 3 => TrimmedLines[i] \in Range(copy)
            /\ \A i, j \in 1..Len(copy) : i # j => copy[i] # copy[j]

\* C13, the part the code keeps: detected_copy is the trimmed lines of at
\* least 3 characters, each as often as recognized, in recognition order
DetectedCopyOrderedFiltered ==
    (outcome.kind = "extraction" /\ env.ocr.status = "ok") =>
        LET copy == outcome.value.detected_copy
            kept == {i \in 1..Len(TrimmedLines) : Len(TrimmedLines[i]) >= 3}
        IN  /\ Len(copy) = Cardinality(kept)
            /\ \A i \in 1..Len(copy) :
                   \E k \in kept :
                       /\ Cardinality({m \in kept : m <= k}) = i
                       /\ copy[i] = TrimmedLines[k]

\* C13 witness: a text with the same line twice has been extracted
RepeatedLineExtracted ==
    /\ outcome.kind = "extraction"
    /\ env.ocr.status = "ok"
    /\ \E i, j \in 1..Len(TrimmedLines) :
           i < j /\ TrimmedLines[i] = TrimmedLines[j] /\ Len(TrimmedLines[i]) >= 3

\* every whitespace run of s replaced by one space
RECURSIVE Collapse(_)
Collapse(s) ==
    IF s = <<>> THEN <<>>
    ELSE IF IsSpaceChar(Head(s)) THEN <<" ">> \o Collapse(LStrip(s))
    ELSE <<Head(s)>> \o Collapse(Tail(s))

\* the normalized line: whitespace runs collapsed, no space at either end
NormalizedLine(line) == Strip(Collapse(line))

\* what lines are compared by: the normalized line without regard to case
LineKey(line) == Lower(NormalizedLine(line))

\* the samples are, in first-seen order, one per line of firsts, each with the
\* normalized text and the casing of that line
OneSamplePerFirst(samples, lines, firsts) ==
    /\ Len(samples) = Cardinality(firsts)
    /\ \A i \in firsts :
           LET r == Cardinality({m \in firsts : m <= i})
           IN  /\ samples[r].text = NormalizedLine(lines[i])
               /\ samples[r].casing = infer_casing(NormalizedLine(lines[i]))

\* C14 as stated: build_typography_samples yields exactly one sample per
\* distinct normalized line (compared case-insensitively), with the text and
\* casing of the first-seen occurrence, in first-seen order.
OneSamplePerNormalizedLine ==
    outcome.kind = "samples" =>
        LET lines == env.lines
            firsts == {i \in 1..Len(lines) :
                          \A j \in 1..(i - 1) : LineKey(lines[j]) # LineKey(lines[i])}
        IN  OneSamplePerFirst(outcome.value, lines, firsts)

\* C14: build_typography_samples yields exactly one sample per distinct
\* non-empty normalized line (compared case-insensitively), with the text
\* and casing of the first-seen occurrence, in first-seen order; a line
\* that normalizes to the empty string yields no sample.
OneSamplePerNonEmptyNormalizedLine ==
    outcome.kind = "samples" =>
        LET lines == env.lines
            firsts == {i \in 1..Len(lines) :
                          /\ NormalizedLine(lines[i]) # <<>>
                          /\ \A j \in 1..(i - 1) :
                                 LineKey(lines[j]) # LineKey(lines[i])}
        IN  OneSamplePerFirst(outcome.value, lines, firsts)

\* C14 witness: samples built from a line, a blank line and the first line
\* again in another case
CaseVariantAndBlankLineSampled ==
    /\ outcome.kind = "samples"
    /\ Len(env.lines) = 3
    /\ NormalizedLine(env.lines[2]) = <<>>
    /\ env.lines[1] # env.lines[3]
    /\ LineKey(env.lines[1]) = LineKey(env.lines[3])
    /\ Len(outcome.value) = 1

\* the documents built so far
Documents == {documents[i].value : i \in {j \in 1..Len(documents) :
                                              documents[j].kind = "document"}}

SectionTitles(document) ==
    [i \in 1..Len(document.sections) |-> document.sections[i].title]

SevenTitles ==
    <<"Tone of Voice", "Social Media", "Visual System", "Corner Radius",
      "Iconography", "Logo", "Color">>

HasProductionReferences(document) ==
    \E i \in 1..Len(document.sections) :
        document.sections[i].title = "Production References"

\* C15: the sections of every document of build_document and of
\* build_document_from_spec are, in this order, Tone of Voice, Social Media,
\* Visual System, Corner Radius, Iconography, Logo, Color, each once, and
\* after them Production References or nothing.
SectionsInFixedOrder ==
    \A document \in Documents :
        SectionTitles(document)
            \in {SevenTitles, SevenTitles \o <<"Production References">>}

\* C15 witness: build_document has built a document of eight sections
EightSectionsBuilt ==
    /\ env.mode = "local"
    /\ documents # <<>>
    /\ documents[1].kind = "document"
    /\ Len(documents[1].value.sections) = 8

\* the notes the synthesizer is handed: the production notes of the evidence
\* for build_document, the production and confidence notes of the design
\* spec for build_document_from_spec
NotesHanded ==
    IF env.mode = "local" THEN returned[Len(returned)].production_notes
    ELSE env.design_spec.compiled.production_notes
             \o env.design_spec.compiled.confidence_notes

\* C16: a document has the Production References section iff the production
\* notes or the confidence notes it was built from are non-empty, and no
\* section of a document has an empty body.
ProductionReferencesIffNotes ==
    \A document \in Documents :
        /\ HasProductionReferences(document) <=> NotesHanded # <<>>
        /\ \A i \in 1..Len(document.sections) : document.sections[i].body # <<>>

\* C16 witness: a design spec with confidence notes only has its document
ConfidenceNotesOnlyBuilt ==
    /\ env.mode = "spec"
    /\ env.design_spec.compiled.production_notes = <<>>
    /\ env.design_spec.compiled.confidence_notes # <<>>
    /\ documents # <<>>
    /\ documents[1].kind = "document"
    /\ HasProductionReferences(documents[1].value)

RECURSIVE LayoutsOf(_)
LayoutsOf(images) ==
    IF images = <<>> THEN <<>> ELSE <<Head(images).layout>> \o LayoutsOf(Tail(images))

\* two local evidences that agree on layout_patterns and on the layout of
\* every image
SameLayoutEvidence(a, b) ==
    /\ a # None /\ b # None
    /\ a.layout_patterns = b.layout_patterns
    /\ LayoutsOf(a.images) = LayoutsOf(b.images)

\* C17: for a fixed design spec, two local evidences that agree on
\* layout_patterns and on every image's layout, whatever their palette,
\* typography, copy_observations and production_notes, give
\* build_document_from_spec identical results.
SpecDocumentReadsLayoutOnly ==
    (/\ env.mode = "spec"
     /\ Len(documents) = 2
     /\ SameLayoutEvidence(env.evidences[1], env.evidences[2])) =>
        documents[1] = documents[2]

\* C17, the part the code keeps: evidences that agree on the layouts and on
\* copy_observations give identical results, whatever their palette,
\* typography and production_notes
SpecDocumentReadsLayoutAndCopy ==
    (/\ env.mode = "spec"
     /\ Len(documents) = 2
     /\ SameLayoutEvidence(env.evidences[1], env.evidences[2])
     /\ env.evidences[1].copy_observations = env.evidences[2].copy_observations) =>
        documents[1] = documents[2]

\* C17 witness: two documents built with evidences of the same layouts and
\* of different copy
CopyVariantsBuilt ==
    /\ env.mode = "spec"
    /\ Len(documents) = 2
    /\ documents[1].kind = "document"
    /\ SameLayoutEvidence(env.evidences[1], env.evidences[2])
    /\ env.evidences[1].copy_observations # env.evidences[2].copy_observations

\* C18: build_document_from_spec returns a document, and raises nothing, for
\* every design spec of the shape aggregate_guidelines returns, a palette
\* hex being any non-empty string, with or without local evidence.
SpecDocumentNeverRaises ==
    env.mode = "spec" =>
        \A i \in 1..Len(documents) : documents[i].kind = "document"

\* C18, the part the code keeps: a document is returned when the palette is
\* empty or the hex of its first entry is "#" and six hex digits
SpecDocumentOfHexPalette ==
    (/\ env.mode = "spec"
     /\ LET palette == env.design_spec.compiled.visual_identity.color_palette
        IN  palette # <<>> =>
                /\ Len(palette[1].hex) = 7
                /\ palette[1].hex[1] = "#"
                /\ \A k \in 2..7 : palette[1].hex[k] \in Range(HexDigits)) =>
        \A i \in 1..Len(documents) : documents[i].kind = "document"

\* C18 witness: a design spec whose first palette hex is not six hex digits
\* has been handed to build_document_from_spec
OddHexSpecBuilt ==
    /\ env.mode = "spec"
    /\ documents # <<>>
    /\ env.design_spec.compiled.visual_identity.color_palette # <<>>
    /\ Len(env.design_spec.compiled.visual_identity.color_palette[1].hex) < 7

\* the lines of the rendered section of that title: from its heading to the
\* rule that closes it
SectionText(title) ==
    LET heading == CHOOSE i \in 1..Len(markdown) : markdown[i] = "## " \o title
        rule == Min({i \in heading..Len(markdown) : markdown[i] = "***"})
    IN  SubSeq(markdown, heading, rule)

\* C19: when the extraction of an image has colors, the document of its
\* aggregated evidence is built, and its rendering has the title line of
\* 'B Brand Guidelines', a heading Tone of Voice, a heading Color, and in the
\* Color section a table row with the hex of each swatch of the aggregated
\* palette.
ChainRendersTitleHeadingsAndPalette ==
    (outcome.kind = "extraction" /\ outcome.value.colors # <<>>) =>
        /\ documents # <<>> => documents[1].kind = "document"
        /\ markdown # <<>> =>
              /\ \E i \in 1..Len(markdown) :
                     markdown[i] = "# " \o (env.brand_name \o " Brand Guidelines")
                                       \o " (Auto-generated)"
              /\ \E i \in 1..Len(markdown) : markdown[i] = "## Tone of Voice"
              /\ \E i \in 1..Len(markdown) : markdown[i] = "## Color"
              /\ \A k \in 1..Len(returned[1].palette) :
                     \E line \in Range(SectionText("Color")) :
                         \E other \in Range(returned[1].palette) :
                             line = "| " \o Str(returned[1].palette[k].hex)
                                        \o " | " \o other.name \o " | "
                                        \o other.usage_hint \o " |"

\* C19 witness: the document of an image of two colors has been rendered
TwoColorImageRendered ==
    /\ outcome.kind = "extraction"
    /\ Len(outcome.value.colors) = 2
    /\ markdown # <<>>
    /\ Len(returned[1].palette) = 2

RECURSIVE Prominences(_)
Prominences(swatches) ==
    IF swatches = <<>> THEN <<>>
    ELSE <<Head(swatches).prominence>> \o Prominences(Tail(swatches))

OrientationByExactThresholds ==
    outcome.kind = "layout" =>
        LET w == env.width
            h == env.height
            orientation == outcome.value.dominant_orientation
        IN  /\ orientation \in {"landscape", "portrait", "square"}
            /\ orientation = "landscape" <=> 20 * w > 23 * h
            /\ orientation = "portrait" <=> 20 * w < 17 * h
            /\ orientation = "square" <=> (20 * w <= 23 * h /\ 20 * w >= 17 * h)

\* witness of C21: an image of ratio exactly 1.15 was summarized as square
RatioOnThresholdSummarized ==
    /\ outcome.kind = "layout"
    /\ env.width = 23
    /\ env.height = 20
    /\ outcome.value.dominant_orientation = "square"

\* the grid cells that hold the pixel
CellsHolding(pixel) ==
    {idx \in 0..(Len(GRID_REGIONS) - 1) :
        pixel \in CellPixels(Cell(idx, env.width, env.height))}

\* C22: the nine grid cells lie inside the image, every pixel is in exactly
\* one of them, and focal_regions is a duplicate-free sub-sequence of
\* GRID_REGIONS in row-major order
GridCellsPartitionImage ==
    outcome.kind = "layout" =>
        LET focal == outcome.value.focal_regions
        IN  /\ \A idx \in 0..(Len(GRID_REGIONS) - 1) :
                   CellPixels(Cell(idx, env.width, env.height))
                       \subseteq PixelsOf(env.width, env.height)
            /\ \A pixel \in PixelsOf(env.width, env.height) :
                   Cardinality(CellsHolding(pixel)) = 1
            /\ IsSubsequence(focal, GRID_REGIONS)
            /\ \A i, j \in 1..Len(focal) : focal[i] = focal[j] => i = j

\* witness of C22: an image narrower than 3 pixels, of a height that is no
\* multiple of 3, was summarized with more than one focal region
NarrowImageSummarized ==
    /\ outcome.kind = "layout"
    /\ env.width = 2
    /\ env.height = 4
    /\ Len(outcome.value.focal_regions) >= 2

\* every letter of the text is uppercase, and it has a letter
FullyUppercase(text) ==
    /\ \E i \in 1..Len(text) : IsAlphaChar(text[i])
    /\ \A i \in 1..Len(text) : IsAlphaChar(text[i]) => IsUpperChar(text[i])

\* the number of words: the places where a run of non-space characters starts
WordsIn(text) ==
    Cardinality({i \in 1..Len(text) :
                    /\ ~IsSpaceChar(text[i])
                    /\ (i = 1 \/ IsSpaceChar(text[i - 1]))})

\* the samples of the typography run, once it has run
SamplesBuilt == IF outcome.kind = "samples" THEN Range(outcome.value) ELSE {}

\* C23: a sample's weight is bold iff its text has at most 12 characters and
\* is fully uppercase; otherwise regular iff it has at least 8 words;
\* otherwise medium
WeightByLengthCaseAndWords ==
    \A sample \in SamplesBuilt :
        sample.weight =
            IF Len(sample.text) <= 12 /\ FullyUppercase(sample.text) THEN "bold"
            ELSE IF WordsIn(sample.text) >= 8 THEN "regular"
            ELSE "medium"

\* witness of C23: an uppercase line of exactly 12 characters was sampled bold
TwelveCharacterLineSampled ==
    \E sample \in SamplesBuilt :
        /\ Len(sample.text) = 12
        /\ FullyUppercase(sample.text)
        /\ sample.weight = "bold"

\* C24: a sample's classification is display iff its text has at most 4
\* words and is fully uppercase; otherwise headline iff it has at most 8
\* words; otherwise body; every sample has exactly one of the three
ClassificationByWordsAndCase ==
    \A sample \in SamplesBuilt :
        /\ sample.classification \in {"display", "headline", "body"}
        /\ sample.classification =
               IF WordsIn(sample.text) <= 4 /\ FullyUppercase(sample.text)
               THEN "display"
               ELSE IF WordsIn(sample.text) <= 8 THEN "headline"
               ELSE "body"

\* witness of C24: an uppercase line of exactly 4 words was sampled display
FourWordLineSampled ==
    \E sample \in SamplesBuilt :
        /\ WordsIn(sample.text) = 4
        /\ FullyUppercase(sample.text)
        /\ sample.classification = "display"

\* the document build_document built of the aggregated evidence
LocalDocuments == IF env.mode = "local" THEN Documents ELSE {}

\* the body of the section of the title
BodyOf(document, title) ==
    LET i == CHOOSE j \in 1..Len(document.sections) :
                 document.sections[j].title = title
    IN  document.sections[i].body

\* 0.2126 R + 0.7152 G + 0.0722 B of a hex "#RRGGBB", times 10000
Luminance(hex) ==
    LET channel(i) == 16 * HexDigitValue(hex[i]) + HexDigitValue(hex[i + 1])
    IN  2126 * channel(2) + 7152 * channel(4) + 722 * channel(6)

ToneLine(tone) ==
    "- Dominant palette leans " \o tone
        \o "; mirror this energy in written narratives."

\* the line the Tone of Voice section must have for the palette
ToneLineOf(palette) ==
    IF palette = <<>>
    THEN "- Palette analysis unavailable; retain neutral authoritative tone."
    ELSE LET L == Luminance(palette[1].hex)
         IN  IF L * 100 < 35 * 255 * 10000 THEN ToneLine("confident and premium")
             ELSE IF L * 10 < 6 * 255 * 10000 THEN ToneLine("assured and balanced")
             ELSE ToneLine("open and energizing")

ToneLines ==
    {ToneLine("confident and premium"), ToneLine("assured and balanced"),
     ToneLine("open and energizing"),
     "- Palette analysis unavailable; retain neutral authoritative tone."}

\* C25: the Tone of Voice section has exactly one tone line, the one of the
\* luminance L of the first palette swatch: confident and premium iff
\* L < 0.35, assured and balanced iff 0.35 <= L < 0.6, open and energizing iff
\* L >= 0.6; and the palette-unavailable line when the palette is empty
ToneByLuminanceOfFirstSwatch ==
    \A document \in LocalDocuments :
        Range(BodyOf(document, "Tone of Voice")) \cap ToneLines
            = {ToneLineOf(returned[1].palette)}

OnThreshold(L) == L * 100 = 35 * 255 * 10000 \/ L * 10 = 6 * 255 * 10000

\* C25, the part the code keeps: the same, for a first swatch whose
\* luminance is neither 0.35 nor 0.6
ToneByLuminanceOffThreshold ==
    \A document \in LocalDocuments :
        (returned[1].palette = <<>>
            \/ ~OnThreshold(Luminance(returned[1].palette[1].hex))) =>
            Range(BodyOf(document, "Tone of Voice")) \cap ToneLines
                = {ToneLineOf(returned[1].palette)}

\* witness of C25: a first swatch of luminance 0.35 was given the tone of a
\* luminance below 0.35
ThresholdSwatchBuilt ==
    \E document \in LocalDocuments :
        /\ returned[1].palette # <<>>
        /\ Luminance(returned[1].palette[1].hex) * 100 = 35 * 255 * 10000
        /\ ToneLine("confident and premium")
               \in Range(BodyOf(document, "Tone of Voice"))

\* the length of the longest of the lines
Longest(lines) ==
    IF lines = <<>> THEN 0
    ELSE CHOOSE n \in {Len(lines[k]) : k \in 1..Len(lines)} :
             \A k \in 1..Len(lines) : Len(lines[k]) <= n

\* the letters and uppercase letters of the copy lines, counted per character
LettersOf(lines) ==
    {<<k, i>> \in (1..Len(lines)) \X (1..Longest(lines)) :
        i <= Len(lines[k]) /\ IsAlphaChar(lines[k][i])}

UppercaseOf(lines) ==
    {<<k, i>> \in LettersOf(lines) : IsUpperChar(lines[k][i])}

BoldHeadlineLine == "- High uppercase usage; maintain bold, declarative headlines."
ConversationalLine ==
    "- Predominantly sentence case; emphasize conversational clarity."
MixedCasingLine ==
    "- Mixed casing observed; adapt tone per channel while staying precise."

\* the guidance for the ratio uppercase / letters, 0 without letters
CasingLineOf(lines) ==
    LET letters == Cardinality(LettersOf(lines))
        uppercase == Cardinality(UppercaseOf(lines))
    IN  IF letters # 0 /\ 20 * uppercase > 11 * letters THEN BoldHeadlineLine
        ELSE IF letters = 0 \/ 4 * uppercase < letters THEN ConversationalLine
        ELSE MixedCasingLine

CasingLines == {BoldHeadlineLine, ConversationalLine, MixedCasingLine}

\* C26: the Tone of Voice section has exactly one casing line: the
\* bold-headline one iff the uppercase ratio r of the copy lines is above
\* 0.55, the conversational one iff r < 0.25, the mixed one otherwise
CasingGuidanceByRatio ==
    \A document \in LocalDocuments :
        Range(BodyOf(document, "Tone of Voice")) \cap CasingLines
            = {CasingLineOf(returned[1].copy_observations)}

\* C26, amended: the same for one or more copy lines; with no copy lines at
\* all the mixed line is emitted
CasingGuidanceByRatioOfCopy ==
    \A document \in LocalDocuments :
        Range(BodyOf(document, "Tone of Voice")) \cap CasingLines
            = {IF returned[1].copy_observations = <<>> THEN MixedCasingLine
               ELSE CasingLineOf(returned[1].copy_observations)}

\* witness of C26: the document of copy lines with a ratio of exactly 0.55
\* carries the mixed line
RatioOnThresholdBuilt ==
    \E document \in LocalDocuments :
        LET lines == returned[1].copy_observations
        IN  /\ lines # <<>>
            /\ 20 * Cardinality(UppercaseOf(lines)) = 11 * Cardinality(LettersOf(lines))
            /\ Cardinality(LettersOf(lines)) > 0
            /\ MixedCasingLine \in Range(BodyOf(document, "Tone of Voice"))

\* how often the label occurs among the first n labels
LabelCount(labels, label, n) ==
    Cardinality({i \in 1..n : labels[i] = label})

\* the most frequent label; of several, the one whose first occurrence is first
MostFrequentLabel(labels) ==
    LET n == Len(labels)
        most == {label \in Range(labels) :
                    \A other \in Range(labels) :
                        LabelCount(labels, label, n) >= LabelCount(labels, other, n)}
        first == Min({i \in 1..n : labels[i] \in most})
    IN  labels[first]

ChannelLine(orientation) ==
    IF orientation = "portrait"
    THEN "- Prioritize Instagram Stories/Reels and mobile-first LinkedIn posts."
    ELSE IF orientation = "square"
    THEN "- Square treatments adapt well to Instagram feed and LinkedIn carousels."
    ELSE "- Landscape layouts suit webinars, YouTube explainers, and LinkedIn banners."

ChannelLines == {ChannelLine(o) : o \in {"portrait", "square", "landscape"}}

\* C27: the Social Media section carries the channel recommendations of the
\* most frequent label of layout_patterns, of the first-occurring one among
\* several most frequent labels, and those of landscape without labels
ChannelsByMostFrequentLabel ==
    \A document \in LocalDocuments :
        LET labels == returned[1].layout_patterns
        IN  Range(BodyOf(document, "Social Media")) \cap ChannelLines
                = {ChannelLine(IF labels = <<>> THEN "landscape"
                               ELSE MostFrequentLabel(labels))}

\* witness of C27: two labels tie for the most frequent, the first label is
\* not landscape, and its recommendations were chosen
TiedLabelsBuilt ==
    \E document \in LocalDocuments :
        LET labels == returned[1].layout_patterns
        IN  /\ Len(labels) = 4
            /\ labels[1] = "square"
            /\ labels[2] = "portrait"
            /\ LabelCount(labels, "square", 4) = 2
            /\ LabelCount(labels, "portrait", 4) = 2
            /\ ChannelLine("square") \in Range(BodyOf(document, "Social Media"))

\* analyze_image returned None for the i-th path
Failed(i) == env.answers[i] = None

\* the records of the analyses that succeeded among the first k paths, in
\* path order
RECURSIVE SuccessesUpTo(_)
SuccessesUpTo(k) ==
    IF k = 0 THEN <<>>
    ELSE SuccessesUpTo(k - 1)
             \o (IF Failed(k) THEN <<>>
                 ELSE <<[image |-> env.paths[k], guidelines |-> env.answers[k]]>>)

FailFastAbort ==
    /\ outcome.kind = "error"
    /\ outcome.message = "Analysis failed; aborting due to --fail-fast."

\* C28: the paths are analyzed in order; without fail-fast a failed image is
\* skipped and the run goes on to the last path; with fail-fast the run
\* aborts at the first failed image and analyzes no later one; a run in
\* which no image succeeded ends in an abort and no design spec; the design
\* spec is aggregated from the successful results in path order
VisionRunSkipsOrAborts ==
    LET n == Len(env.paths)
        k == Len(vision.analyzed)
        failures == {i \in 1..k : Failed(i)}
    IN  /\ vision.analyzed = SubSeq(env.paths, 1, k)
        /\ vision.per_image = SuccessesUpTo(k)
        /\ ~env.fail_fast =>
               /\ ~FailFastAbort
               /\ outcome # NoOutcome => k = n
        /\ env.fail_fast =>
               /\ failures # {} => FailFastAbort
               /\ FailFastAbort => failures = {k}
        /\ (outcome # NoOutcome /\ SuccessesUpTo(k) = <<>>) =>
               outcome.kind = "error"
        /\ outcome.kind = "design_spec" =>
               /\ k = n
               /\ outcome.value.per_image = SuccessesUpTo(n)
               /\ outcome.value.per_image # <<>>
               /\ outcome.value.images_analyzed = Len(SuccessesUpTo(n))

\* witness of C28: without fail-fast the second of three images failed and
\* the design spec was aggregated from the first and the third
FailureSkippedAndLaterAnalyzed ==
    /\ outcome.kind = "design_spec"
    /\ ~env.fail_fast
    /\ Len(env.paths) = 3
    /\ ~Failed(1) /\ Failed(2) /\ ~Failed(3)
    /\ outcome.value.images_analyzed = 2

\* the colors of the records, each with the image of its record
ColorsOf(records) ==
    {[image |-> records[i].image,
      color |-> records[i].guidelines.visual_identity.color_palette[j]] :
        <<i, j>> \in {<<i, j>> \in (1..Len(records)) \X (1..4) :
            j <= Len(records[i].guidelines.visual_identity.color_palette)}}

\* the hex of a color: trimmed and uppercased
HexOf(color) == Upper(Strip(color.hex))

\* the str of the set in ascending order: the i-th has i - 1 smaller ones
Ascending(values) ==
    [i \in 1..Cardinality(values) |->
        CHOOSE x \in values :
            Cardinality({y \in values : StrLess(y, x)}) = i - 1]

\* the trimmed, non-empty values of a field over the colors of the hex
FieldOf(records, hex, Field(_)) ==
    {Strip(Field(c)) : c \in {c \in ColorsOf(records) : HexOf(c.color) = hex}}
        \ {<<>>}

Orderings(n) ==
    {f \in [1..n -> 1..n] : \A i, j \in 1..n : f[i] = f[j] => i = j}

\* C29: the compiled palette has one entry per distinct trimmed, uppercased,
\* non-empty hex, in ascending order of hex; the names, usage notes,
\* finishes, notes and source images of an entry are the sorted,
\* duplicate-free union over the colors of that hex; and the palette is the
\* same for every permutation of the records
CompiledPaletteCanonical ==
    outcome.kind = "design_spec" =>
        LET records == vision.per_image
            palette == outcome.value.compiled.visual_identity.color_palette
            hexes == {HexOf(c.color) : c \in ColorsOf(records)} \ {<<>>}
            name(c) == c.color.name
            usage(c) == c.color.usage
            finish(c) == c.color.finish
            notes(c) == c.color.notes
            image(c) == c.image
        IN  /\ Len(palette) = Cardinality(hexes)
            /\ \A i \in 1..Len(palette) : palette[i].hex = Ascending(hexes)[i]
            /\ \A i \in 1..Len(palette) :
                   LET hex == palette[i].hex
                   IN  /\ palette[i].names
                              = StrAll(Ascending(FieldOf(records, hex, name)))
                       /\ palette[i].usage_notes
                              = StrAll(Ascending(FieldOf(records, hex, usage)))
                       /\ palette[i].finishes
                              = StrAll(Ascending(FieldOf(records, hex, finish)))
                       /\ palette[i].additional_notes
                              = StrAll(Ascending(FieldOf(records, hex, notes)))
                       /\ palette[i].source_images
                              = StrAll(Ascending(FieldOf(records, hex, image)))
            /\ \A f \in Orderings(Len(records)) :
                   aggregate_guidelines([i \in 1..Len(records) |-> records[f[i]]])
                       .compiled.visual_identity.color_palette = palette

\* witness of C29: a palette was compiled from two or more results of which
\* the first names #112244 first, and #00A1DE, spelled in several ways, is
\* the first entry with more than one name
SharedHexCompiled ==
    /\ outcome.kind = "design_spec"
    /\ Len(vision.per_image) >= 2
    /\ LET first == vision.per_image[1].guidelines.visual_identity.color_palette
           palette == outcome.value.compiled.visual_identity.color_palette
       IN  /\ first # <<>>
           /\ first[1].hex = <<"#", "1", "1", "2", "2", "4", "4">>
           /\ Len(palette) = 2
           /\ palette[1].hex = <<"#", "0", "0", "A", "1", "D", "E">>
           /\ Len(palette[1].names) >= 2
           /\ Len(palette[1].source_images) >= 2

\* C30: no ImageExtraction of extract_from_path carries the no-samples note:
\* whenever its list of text lines is not empty its typography list is not
\* empty either, so the no-samples note and the no-copy note never meet.
SamplesNoteUnreachable ==
    outcome.kind = "extraction" =>
        LET e == outcome.value
            noted == {e.notes[i] : i \in 1..Len(e.notes)}
        IN  /\ NoSamplesNote \notin noted
            /\ e.detected_copy # <<>> => e.typography # <<>>
            /\ ~(NoSamplesNote \in noted /\ NoCopyNote \in noted)

\* witness of C30: the recognized text had a line too short to keep or two
\* lines that make one sample, and the extraction has copy and a sample
CopyWithFewerSamples ==
    /\ outcome.kind = "extraction"
    /\ env.ocr.status = "ok"
    /\ outcome.value.detected_copy # <<>>
    /\ outcome.value.typography # <<>>
    /\ \/ Len(outcome.value.typography) < Len(outcome.value.detected_copy)
       \/ Len(outcome.value.detected_copy) < Len(SplitLines(env.ocr.text))

====
